---- MODULE Spec2Model ----
(***************************************************************************)
(* A model of ccDownloader.py (CardConjurerDownloader): the canvas         *)
(* convergence detector, the tab navigator, the priming pre-phase, the     *)
(* per-card export loop and the failed-cards (retry) file writer.          *)
(*                                                                         *)
(* Five specifications share the module:                                   *)
(*   SpecDetector  wait_for_canvas_change_and_stabilization, one poll of   *)
(*                 its while loop per step, samples chosen by the surface; *)
(*   SpecRetry     _write_failed_cards_file applied to every manifest and  *)
(*                 failed-key list within the bounds;                      *)
(*   SpecNav       consecutive calls of _navigate_to_creator_tab from any  *)
(*                 tracked view;                                           *)
(*   SpecNamer     _generate_filename called on every key and card data    *)
(*                 within the bounds;                                      *)
(*   Spec          run(): priming, the main loop, the post-loop output and *)
(*                 the failed-cards file.                                  *)
(***************************************************************************)
EXTENDS Integers, Sequences, FiniteSets, TLC

\* ------------------------------------------------------------------ values

\* Python's None, for an Optional[str] hash.
None == 0

\* A sample that yields no hash: a 'canvas_error:' string, a null data URL
\* or an exception raised by execute_script (lines 464-466, 473).
Err == -1

\* Number of distinct canvas contents the surface can show.
NumHashes == 2

\* The fingerprints (md5 hex digests) of those contents.
Hashes == 1..NumHashes

\* self.delays['canvas_stability_checks']
stability_checks_needed == 3

\* Number of loop iterations that fit into canvas_stabilize_timeout: every
\* iteration that does not return sleeps canvas_stability_interval.
MaxPolls == 7

\* ------------------------------------------------------- convergence detector

\* The locals of wait_for_canvas_change_and_stabilization before the loop.
DetInit(initial_data_url_hash) ==
    [ last_hash            |-> initial_data_url_hash,
      current_hash         |-> None,
      stable_count         |-> 0,
      changed_from_initial |-> (initial_data_url_hash = None),
      first_valid_hash_obtained_this_call |-> FALSE,
      done                 |-> FALSE,
      result               |-> None ]

\* Lines 468-472: the first valid hash of the call.
DetFirst(d, initial_data_url_hash, s) ==
    IF d.first_valid_hash_obtained_this_call
    THEN [d EXCEPT !.current_hash = s]
    ELSE [d EXCEPT !.current_hash = s,
                   !.last_hash = s,
                   !.first_valid_hash_obtained_this_call = TRUE,
                   !.stable_count =
                       IF initial_data_url_hash = None THEN 1 ELSE @]

\* DetEscape with the first valid sample taken as the escape, whatever it is.
DetEscapeEager(d, initial_data_url_hash) ==
    IF initial_data_url_hash # None /\ ~d.changed_from_initial
    THEN [d EXCEPT !.changed_from_initial = TRUE,
                   !.last_hash = d.current_hash,
                   !.stable_count = 1]
    ELSE d

\* Lines 477-482: the escape phase.
DetEscape(d, initial_data_url_hash) ==
    IF initial_data_url_hash # None /\ ~d.changed_from_initial
    THEN IF d.current_hash # initial_data_url_hash
         THEN [d EXCEPT !.changed_from_initial = TRUE,
                        !.last_hash = d.current_hash,
                        !.stable_count = 1]
         ELSE [d EXCEPT !.stable_count = 0]
    ELSE d

\* Line 491-495 with the stability test replaced: returns also on the baseline.
DetReturnAlways(d, initial_data_url_hash) ==
    IF d.stable_count >= stability_checks_needed
    THEN [d EXCEPT !.done = TRUE, !.result = d.current_hash]
    ELSE d

\* Lines 491-495: return the hash unless it is the initial one.
DetReturn(d, initial_data_url_hash) ==
    IF d.stable_count >= stability_checks_needed
    THEN IF initial_data_url_hash # None
            /\ d.current_hash = initial_data_url_hash
         THEN d
         ELSE [d EXCEPT !.done = TRUE, !.result = d.current_hash]
    ELSE d

\* DetStable with a change of the hash resetting the counter to 0.
DetStableFromZero(d, initial_data_url_hash) ==
    IF d.changed_from_initial
    THEN DetReturn(
           [d EXCEPT !.stable_count =
                         IF d.current_hash = d.last_hash THEN @ + 1 ELSE 0,
                     !.last_hash = d.current_hash],
           initial_data_url_hash)
    ELSE d

\* Lines 484-495: the stability phase.
DetStable(d, initial_data_url_hash) ==
    IF d.changed_from_initial
    THEN DetReturn(
           [d EXCEPT !.stable_count =
                         IF d.current_hash = d.last_hash THEN @ + 1 ELSE 1,
                     !.last_hash = d.current_hash],
           initial_data_url_hash)
    ELSE d

\* DetStep with an erroring sample ending the run of identical samples.
DetStepErrorResets(d, initial_data_url_hash, s) ==
    IF s = Err
    THEN [d EXCEPT !.stable_count = 0]
    ELSE DetStable(
           DetEscape(DetFirst(d, initial_data_url_hash, s),
                     initial_data_url_hash),
           initial_data_url_hash)

\* One iteration of the while loop (lines 461-496) on sample s.
DetStep(d, initial_data_url_hash, s) ==
    IF s = Err
    THEN d
    ELSE DetStable(
           DetEscape(DetFirst(d, initial_data_url_hash, s),
                     initial_data_url_hash),
           initial_data_url_hash)

\* Line 497: the loop condition failed without a return.
DetTimedOut(d) == [d EXCEPT !.done = TRUE, !.result = None]

\* The whole call on a scripted run of samples, one per iteration.
RECURSIVE DetRun(_, _, _, _)
DetRun(d, initial_data_url_hash, seq, i) ==
    IF d.done THEN d
    ELSE IF i > Len(seq) \/ i > MaxPolls THEN DetTimedOut(d)
    ELSE DetRun(DetStep(d, initial_data_url_hash, seq[i]),
                initial_data_url_hash, seq, i + 1)

\* wait_for_canvas_change_and_stabilization(initial) on those samples.
wait_for_canvas_change_and_stabilization(initial_data_url_hash, seq) ==
    DetRun(DetInit(initial_data_url_hash), initial_data_url_hash, seq, 1).result

\* ------------------------------------------------------------------ namer
\* Strings are sequences of characters.

UpperCase ==
    <<"A", "B", "C", "D", "E", "F", "G", "H", "I", "J", "K", "L", "M",
      "N", "O", "P", "Q", "R", "S", "T", "U", "V", "W", "X", "Y", "Z">>

LowerCase ==
    <<"a", "b", "c", "d", "e", "f", "g", "h", "i", "j", "k", "l", "m",
      "n", "o", "p", "q", "r", "s", "t", "u", "v", "w", "x", "y", "z">>

Digits == {"0", "1", "2", "3", "4", "5", "6", "7", "8", "9"}

\* Letters outside ASCII, upper and lower case.
NonAscii == {"É", "é"}

\* c.lower() with upper-case letters left as they are.
LowerNot(c) == c

\* c.lower()
Lower(c) ==
    IF \E i \in 1..Len(UpperCase) : UpperCase[i] = c
    THEN LowerCase[CHOOSE i \in 1..Len(UpperCase) : UpperCase[i] = c]
    ELSE IF c = "É" THEN "é"
    ELSE c

\* c.isalnum(): letters of any script and digits.
IsAlnum(c) ==
    \/ \E i \in 1..Len(UpperCase) : c = UpperCase[i] \/ c = LowerCase[i]
    \/ c \in Digits
    \/ c \in NonAscii

\* \w of a str pattern: alphanumerics of any script and the underscore.
IsWord(c) == IsAlnum(c) \/ c = "_"

\* \s
IsSpace(c) == c = " "

\* s.lower()
LowerStr(s) == [i \in 1..Len(s) |-> Lower(s[i])]

\* Line 564: re.sub(r'[^\w\s-]', '', s)
RemoveSpecial(s) ==
    SelectSeq(s, LAMBDA c : IsWord(c) \/ IsSpace(c) \/ c = "-")

\* s.strip()
Strip(s) ==
    LET I == {i \in 1..Len(s) : ~IsSpace(s[i])}
    IN  IF I = {} THEN <<>>
        ELSE SubSeq(s, CHOOSE i \in I : \A j \in I : i <= j,
                       CHOOSE i \in I : \A j \in I : j <= i)

\* Lines 565, 566: re.sub(r'\s+', '-', s) for cls = "space" and
\* re.sub(r'-+', '-', s) for cls = "dash": every run becomes one dash.
SqueezeRuns(s, cls) ==
    LET in(c) == IF cls = "space" THEN IsSpace(c) ELSE c = "-"
        marks == [i \in 1..Len(s) |->
                    IF ~in(s[i]) THEN s[i]
                    ELSE IF i > 1 /\ in(s[i - 1]) THEN "" ELSE "-"]
    IN  SelectSeq(marks, LAMBDA c : c # "")

\* Line 557: card_name.split('_')[0]
SplitFirst(s) ==
    LET I == {i \in 1..Len(s) : s[i] = "_"}
    IN  IF I = {} THEN s
        ELSE SubSeq(s, 1, (CHOOSE i \in I : \A j \in I : i <= j) - 1)

\* Line 579: "_".join(parts)
RECURSIVE Join(_)
Join(parts) ==
    IF parts = <<>> THEN <<>>
    ELSE IF Len(parts) = 1 THEN parts[1]
    ELSE parts[1] \o <<"_">> \o Join(Tail(parts))

\* Line 583: the characters that are alphanumeric, '-' or '_'.
FinalFilter(s) == SelectSeq(s, LAMBDA c : IsAlnum(c) \/ c = "-" \/ c = "_")

\* A field the card data does not have.
Absent == <<"<absent>">>

\* Lines 531-533.
set_code_default == <<"n", "o", "s", "e", "t">>
collector_number_default == <<"n", "o", "n", "u", "m">>
actual_card_name_default == <<"u", "n", "k", "n", "o", "w", "n">>

\* parsed_card_data_map.get(card_name) of a card the map does not hold (or
\* holds with an empty dict): the test of line 540 fails.
NoCardData ==
    [has |-> FALSE, title |-> Absent, infoSet |-> Absent, infoNumber |-> Absent]

\* Lines 540-560: the name the filename is made from.
ActualCardName(card_name, card_data) ==
    IF card_data.has
    THEN IF card_data.title = Absent THEN actual_card_name_default
         ELSE card_data.title
    ELSE SplitFirst(card_name)

\* Lines 564-566.
CleanName(actual_card_name) ==
    SqueezeRuns(
      SqueezeRuns(Strip(RemoveSpecial(LowerStr(actual_card_name))), "space"),
      "dash")

\* Lines 548-549, 569-570: str(x).lower().strip(), x read with its default.
CleanField(card_data, field, default) ==
    Strip(LowerStr(IF card_data.has /\ field # Absent THEN field
                   ELSE default))

\* Lines 573-577: the parts of the filename.
FilenameParts(clean_name, set_code_clean, collector_number_clean) ==
    <<clean_name>>
      \o (IF set_code_clean # <<>> /\ set_code_clean # set_code_default
          THEN <<set_code_clean>> ELSE <<>>)
      \o (IF /\ collector_number_clean # <<>>
             /\ collector_number_clean # collector_number_default
          THEN <<collector_number_clean>> ELSE <<>>)

\* _generate_filename(card_name), card_data being what the map holds for
\* card_name.
generate_filename(card_name, card_data) ==
    LET clean_name == CleanName(ActualCardName(card_name, card_data))
        set_code_clean ==
            CleanField(card_data, card_data.infoSet, set_code_default)
        collector_number_clean ==
            CleanField(card_data, card_data.infoNumber,
                       collector_number_default)
    IN  FinalFilter(Join(FilenameParts(clean_name, set_code_clean,
                                       collector_number_clean)))
          \o <<".", "p", "n", "g">>

\* ------------------------------------------------------------ manifest

\* Largest number of records of a manifest and of entries of the dropdown.
MaxCards == 3

\* The card keys ("key" of a record, the value of a dropdown option).
Keys == 1..MaxCards

\* Number of distinct "data" payloads a record can carry.
NumPayloads == 2

Payloads == 1..NumPayloads

\* The raw entries of a .cardconjurer list: a dict with "key" and "data", a
\* dict without "key" (key = None) or without a "data" dict (data = None),
\* or an entry that is no dict at all.
DictRecords ==
    [isdict : {TRUE}, key : Keys \cup {None}, data : Payloads \cup {None}]

NonDictRecords == [isdict : {FALSE}, key : {None}, data : {1}]

Records == DictRecords \cup NonDictRecords

\* Sequences over S of length at most n.
SeqsUpTo(S, n) == UNION {[1..m -> S] : m \in 0..n}

\* The elements of a sequence.
Range(seq) == {seq[i] : i \in 1..Len(seq)}

\* --------------------------------------------------------- failed-cards file

\* No failed-cards file has been written.
NoFile == [written |-> FALSE, objects |-> <<>>]

\* KeyIsFailed with the membership test dropped.
KeyIsFailedAny(card_obj, failed_card_keys) == card_obj.key # None

\* Lines 808-811: card_obj.get("key") in failed_keys_set, for a dict.
KeyIsFailed(card_obj, failed_card_keys) ==
    card_obj.key # None /\ card_obj.key \in Range(failed_card_keys)

\* write_failed_cards_file without the guards of lines 796-815.
write_unguarded(full_card_list_from_file, failed_card_keys, io_ok) ==
    [file |-> [written |-> TRUE,
               objects |-> SelectSeq(full_card_list_from_file,
                             LAMBDA c : c.isdict
                                        /\ KeyIsFailed(c, failed_card_keys))],
     log |-> "wrote"]

\* _write_failed_cards_file: the file it leaves and the message it logs.
\* card_obj.get raises AttributeError on an entry that is no dict (line 810);
\* the exception leaves the method before anything is written.
write_failed_cards_file(full_card_list_from_file, failed_card_keys, io_ok) ==
    IF failed_card_keys = <<>>
    THEN [file |-> NoFile, log |-> "no failed cards"]
    ELSE IF full_card_list_from_file = <<>>
    THEN [file |-> NoFile, log |-> "error: original not loaded"]
    ELSE IF \E i \in 1..Len(full_card_list_from_file) :
                ~full_card_list_from_file[i].isdict
    THEN [file |-> NoFile, log |-> "exception: AttributeError"]
    ELSE LET failed_card_objects ==
                 SelectSeq(full_card_list_from_file,
                           LAMBDA c : KeyIsFailed(c, failed_card_keys))
         IN  IF failed_card_objects = <<>>
             THEN [file |-> NoFile, log |-> "warning: no key matched"]
             ELSE IF io_ok
             THEN [file |-> [written |-> TRUE, objects |-> failed_card_objects],
                   log  |-> "wrote"]
             ELSE [file |-> NoFile, log |-> "error: write failed"]

VARIABLES
    \* SpecDetector
    det_initial,      \* initial_data_url_hash of the call
    det,              \* the locals of the call
    polls,            \* iterations of the while loop so far
    samples,          \* the samples the surface has yielded so far
    \* SpecRetry and Spec
    full_card_list_from_file,   \* self.full_card_list_from_file
    failed_card_keys,           \* self.failed_card_keys
    retry_file,                 \* the <stem>-failed file of the run
    retry_log,                  \* what _write_failed_cards_file logged
    retry_calls,                \* calls of _write_failed_cards_file
    retry_io,                   \* whether open/json.dump succeeded
    \* Spec
    pc,                         \* where run() stands
    input_file,                 \* the entries of the .cardconjurer file
    profile,                    \* the options the run was started with
    cards,                      \* self.cards
    parsed_card_data_map,       \* self.parsed_card_data_map
    current_active_tab,         \* self._current_active_tab
    canvas,                     \* digest of what the canvas shows
    pending,                    \* digest of the render in progress
    current_canvas_hash,        \* current_canvas_hash of the main loop
    card_i,                     \* index i (from 1) of the card in the loop
    s_cards,                    \* s_cards
    f_cards_info,               \* f_cards_info
    output_successful,          \* result of process_and_output_all_cards
    prime,                      \* locals of prime_rendering_quirks
    trace,                      \* the external actions issued so far
    nfaults,                    \* deviations of the environment so far
    visited,                    \* the cards the main loop has started on
    file_parses,                \* json.load and lines 222-228 accept the file
    \* SpecNamer
    namer_key,                  \* card_name given to _generate_filename
    namer_data,                 \* parsed_card_data_map.get(card_name)
    namer_calls                 \* the filenames the calls returned

detVars == <<det_initial, det, polls, samples>>

retryVars == <<full_card_list_from_file, failed_card_keys, retry_file,
               retry_log, retry_calls, retry_io>>

namerVars == <<namer_key, namer_data, namer_calls>>

runVars == <<pc, input_file, profile, cards, parsed_card_data_map,
             current_active_tab, canvas, pending, current_canvas_hash, card_i,
             s_cards, f_cards_info, output_successful, prime, trace, nfaults,
             visited, file_parses, namerVars>>

vars == <<detVars, retryVars, runVars>>

\* The detector's variables while no call is modelled.
DetIdle ==
    /\ det_initial = None
    /\ det = DetInit(None)
    /\ polls = 0
    /\ samples = <<>>

\* The writer's variables while no manifest is loaded.
RetryIdle ==
    /\ full_card_list_from_file = <<>>
    /\ failed_card_keys = <<>>
    /\ retry_file = NoFile
    /\ retry_log = "none"
    /\ retry_calls = 0
    /\ retry_io = TRUE

\* The namer's variables while no call is modelled.
NamerIdle ==
    /\ namer_key = <<>>
    /\ namer_data = NoCardData
    /\ namer_calls = <<>>

\* The locals of prime_rendering_quirks before it runs.
PrimeIdle ==
    [blk |-> "none", hash |-> None, flavor_idx |-> 0, ret |-> None]

\* The run's variables while no run is modelled.
RunIdle ==
    /\ pc = "idle"
    /\ input_file = <<>>
    /\ profile = [upload |-> FALSE, overwrite |-> FALSE, override |-> FALSE,
                  fitsym |-> FALSE, fitart |-> FALSE]
    /\ cards = <<>>
    /\ parsed_card_data_map = [k \in Keys |-> None]
    /\ current_active_tab = "none"
    /\ canvas = None
    /\ pending = None
    /\ current_canvas_hash = None
    /\ card_i = 0
    /\ s_cards = 0
    /\ f_cards_info = <<>>
    /\ output_successful = FALSE
    /\ prime = PrimeIdle
    /\ trace = <<>>
    /\ nfaults = 0
    /\ visited = <<>>
    /\ file_parses = TRUE
    /\ NamerIdle

\* ------------------------------------------------------------ SpecDetector

DetectorInit ==
    /\ det_initial \in {None} \cup Hashes
    /\ det = DetInit(det_initial)
    /\ polls = 0
    /\ samples = <<>>
    /\ RetryIdle
    /\ RunIdle

\* DetPoll with the detector switching to the 'art' tab before it samples.
DetPollNavigates ==
    /\ ~det.done
    /\ polls < MaxPolls
    /\ \E s \in Hashes \cup {Err} :
         /\ det' = DetStep(det, det_initial, s)
         /\ samples' = Append(samples, s)
    /\ polls' = polls + 1
    /\ current_active_tab' = "art"
    /\ UNCHANGED <<det_initial, retryVars, pc, input_file, profile, cards,
                   parsed_card_data_map, canvas, pending, current_canvas_hash,
                   card_i, s_cards, f_cards_info, output_successful, prime,
                   trace, nfaults, visited, file_parses, namerVars>>

\* One iteration of the loop: the surface yields s.
DetPoll ==
    /\ ~det.done
    /\ polls < MaxPolls
    /\ \E s \in Hashes \cup {Err} :
         /\ det' = DetStep(det, det_initial, s)
         /\ samples' = Append(samples, s)
    /\ polls' = polls + 1
    /\ UNCHANGED <<det_initial, retryVars, runVars>>

\* The loop condition fails: the timeout has elapsed.
DetTimeout ==
    /\ ~det.done
    /\ polls >= MaxPolls
    /\ det' = DetTimedOut(det)
    /\ UNCHANGED <<det_initial, polls, samples, retryVars, runVars>>

DetectorNext == DetPoll \/ DetTimeout

SpecDetector == DetectorInit /\ [][DetectorNext]_vars

\* ------------------------------------------------------------------- run()

\* Most deviations of the environment (a failed click, load, render, write)
\* within one run.
MaxFaults == 2

\* The data payload whose text.rules.text contains "{flavor}" (line 616).
FlavorPayload == 2

\* Digest of the canvas of the freshly opened page.
BlankHash == 1

\* Digest of the finished render of a card, before and after a transform
\* (auto fit, set symbol) has changed it.
Render(key, fitted) == 2 * key + (IF fitted THEN 1 ELSE 0)

\* Digest of a frame that is no finished render of any card.
Transient == 2 * MaxCards + 2

Cost(ok) == IF ok THEN 0 ELSE 1

\* _parse_cardconjurer_file_content, lines 235-246: the data of the last
\* dict entry with that key and a data dict.
ParseMap(list) ==
    [k \in Keys |->
       LET hits == {n \in 1..Len(list) :
                      list[n].isdict /\ list[n].key = k /\ list[n].data # None}
       IN  IF hits = {} THEN None
           ELSE list[CHOOSE n \in hits : \A m \in hits : m <= n].data]

\* get_saved_cards: the values of the dropdown the page fills from the
\* uploaded file, one per entry that has a key.
DropdownKeys(list) ==
    LET keyed == SelectSeq(list, LAMBDA c : c.isdict /\ c.key # None)
    IN  [n \in 1..Len(keyed) |-> keyed[n].key]

\* MapEmpty for a map that always counts as filled.
MapEmptyNever(map) == FALSE

\* not self.parsed_card_data_map
MapEmpty(map) == \A k \in Keys : map[k] = None

\* Lines 610-618: index (from 1) of the first card whose rules text holds
\* "{flavor}", 0 when there is none.
FlavorIndex(cs, map) ==
    LET hits == {n \in 1..Len(cs) : map[cs[n]] = FlavorPayload}
    IN  IF hits = {} THEN 0 ELSE CHOOSE n \in hits : \A m \in hits : n <= m

\* Navigate without the test of line 193.
NavigateAlwaysClicks(t, target, click_ok) ==
    IF click_ok THEN [tab |-> target, ok |-> TRUE, sw |-> TRUE]
    ELSE [tab |-> "none", ok |-> FALSE, sw |-> TRUE]

\* Navigate with a failure leaving the tracked view as it was.
NavigateKeepsView(t, target, click_ok) ==
    IF t = target THEN [tab |-> t, ok |-> TRUE, sw |-> FALSE]
    ELSE IF click_ok THEN [tab |-> target, ok |-> TRUE, sw |-> TRUE]
    ELSE [tab |-> t, ok |-> FALSE, sw |-> TRUE]

\* Navigate returning True although the tab button was not clicked.
NavigateOptimistic(t, target, click_ok) ==
    IF t = target THEN [tab |-> t, ok |-> TRUE, sw |-> FALSE]
    ELSE IF click_ok THEN [tab |-> target, ok |-> TRUE, sw |-> TRUE]
    ELSE [tab |-> "none", ok |-> TRUE, sw |-> TRUE]

\* Navigate with a click that does not update the tracked view.
NavigateUntracked(t, target, click_ok) ==
    IF t = target THEN [tab |-> t, ok |-> TRUE, sw |-> FALSE]
    ELSE IF click_ok THEN [tab |-> t, ok |-> TRUE, sw |-> TRUE]
    ELSE [tab |-> "none", ok |-> FALSE, sw |-> TRUE]

\* _navigate_to_creator_tab(target) while the tracked view is t; click_ok:
\* the tab button was found and clicked.  tab: the tracked view afterwards
\* ("none" for None), ok: the value returned, sw: the button was looked for.
Navigate(t, target, click_ok) ==
    IF t = target THEN [tab |-> t, ok |-> TRUE, sw |-> FALSE]
    ELSE IF click_ok THEN [tab |-> target, ok |-> TRUE, sw |-> TRUE]
    ELSE [tab |-> "none", ok |-> FALSE, sw |-> TRUE]

\* An external action as the trace records it, issued while the tracked
\* view (self._current_active_tab) is t.
Ev(op, ph, key, t, ok) ==
    [op |-> op, ph |-> ph, key |-> key, tab |-> t, ok |-> ok,
     sw |-> FALSE, from |-> t, to |-> t, sc |-> "", cv |-> None, h |-> None,
     r |-> None]

\* A call _navigate_to_creator_tab(target) made while the tracked view is
\* t, with result res: sw tells whether the tab button was looked for.
NavEv(ph, key, t, target, res) ==
    [Ev("nav", ph, key, target, res.ok)
       EXCEPT !.sw = res.sw, !.from = t, !.to = res.tab]

\* A wait on a canvas showing cv, with baseline h and result r.
WaitEv(ph, key, t, sc, cv, h, r) ==
    [Ev("wait", ph, key, t, r # None)
       EXCEPT !.sc = sc, !.cv = cv, !.h = h, !.r = r]

\* How the canvas behaves during one wait: the samples of the MaxPolls polls.
\*   settle   the old frame once, then the pending render
\*   late     the old frame for stability_checks_needed polls, then the render
\*   stale    the old frame throughout (the render does not show in time, or
\*            is identical to the old frame)
\*   back     one transient frame, then the old frame again
\*   flicker  transient frame and render alternate
\*   errors   every sample is a canvas error
ScriptKinds == {"settle", "late", "stale", "back", "flicker", "errors"}

Script(kind, old, new) ==
    [n \in 1..MaxPolls |->
       CASE kind = "settle"  -> IF n = 1 THEN old ELSE new
         [] kind = "late"    -> IF n <= stability_checks_needed THEN old ELSE new
         [] kind = "stale"   -> old
         [] kind = "back"    -> IF n = 1 THEN Transient ELSE old
         [] kind = "flicker" -> IF n % 2 = 1 THEN Transient ELSE new
         [] kind = "errors"  -> Err]

\* What the canvas shows when the wait is over.
CanvasAfter(kind, old, new) ==
    IF kind \in {"stale", "back"} THEN old ELSE new

\* Capture with a timeout handing back no hash instead of the previous one.
CaptureForgets(previous_canvas_hash, cv, pd, kind, snap_ok) ==
    LET new_stabilized_hash ==
            wait_for_canvas_change_and_stabilization(
                previous_canvas_hash, Script(kind, cv, pd))
    IN  IF new_stabilized_hash = None
        THEN [bytes |-> None, hash |-> None,
              stabilized |-> None, snapped |-> FALSE]
        ELSE [bytes |-> IF snap_ok THEN CanvasAfter(kind, cv, pd) ELSE None,
              hash |-> new_stabilized_hash,
              stabilized |-> new_stabilized_hash, snapped |-> TRUE]

\* capture_card_image_data_from_canvas(card_name, previous_canvas_hash) on a
\* canvas showing cv with render pd pending: (img_bytes, hash) and the
\* stabilized hash; bytes is the digest of the captured image, None for none.
Capture(previous_canvas_hash, cv, pd, kind, snap_ok) ==
    LET new_stabilized_hash ==
            wait_for_canvas_change_and_stabilization(
                previous_canvas_hash, Script(kind, cv, pd))
    IN  IF new_stabilized_hash = None
        THEN [bytes |-> None, hash |-> previous_canvas_hash,
              stabilized |-> None, snapped |-> FALSE]
        ELSE [bytes |-> IF snap_ok THEN CanvasAfter(kind, cv, pd) ELSE None,
              hash |-> new_stabilized_hash,
              stabilized |-> new_stabilized_hash, snapped |-> TRUE]

\* The environment's choice for one capture, within the fault budget; a
\* choice that cannot matter is fixed.
CaptureChoice(kind, snap_ok, prev, cv, pd, left) ==
    /\ kind \in {"late", "stale"} => cv # pd
    /\ ~snap_ok => Capture(prev, cv, pd, kind, TRUE).snapped
    /\ Cost(kind = "settle") + Cost(snap_ok) <= left

\* -- prime_rendering_quirks: which load-and-capture block comes next.
\*    F1 the flavor card, F2 the card after it, G2 the second card,
\*    G1 the first card, finish: return final_first_card_hash.

\* Lines 647-649.
SkipSecond(cs, hash, fidx) ==
    /\ fidx # 0
    /\ fidx + 1 <= Len(cs)
    /\ cs[fidx + 1] = cs[2]
    /\ hash # None

\* Lines 663-665.
ReuseFirst(cs, hash, fidx) ==
    /\ fidx # 0
    /\ cs[fidx] = cs[1]
    /\ fidx >= Len(cs)
    /\ hash # None

\* Lines 661-670.
General1(cs, hash, fidx) ==
    IF ReuseFirst(cs, hash, fidx) THEN "finish" ELSE "G1"

\* Lines 644-659.
General2(cs, hash, fidx) ==
    IF Len(cs) >= 2 /\ ~SkipSecond(cs, hash, fidx)
    THEN "G2" ELSE General1(cs, hash, fidx)

\* The block after blk ("begin": lines 605-620).
AfterBlock(blk, cs, hash, fidx) ==
    CASE blk = "begin" -> IF fidx # 0 THEN "F1" ELSE General2(cs, hash, fidx)
      [] blk = "F1"    -> IF fidx + 1 <= Len(cs) THEN "F2"
                          ELSE General2(cs, hash, fidx)
      [] blk = "F2"    -> General2(cs, hash, fidx)
      [] blk = "G2"    -> General1(cs, hash, fidx)
      [] blk = "G1"    -> "finish"

\* The card a block loads.
BlockKey(blk, cs, fidx) ==
    CASE blk = "F1" -> cs[fidx]
      [] blk = "F2" -> cs[fidx + 1]
      [] blk = "G2" -> cs[2]
      [] blk = "G1" -> cs[1]

\* Line 632 only logs a failed load; lines 623, 652, 673 return None.
LoadFailureReturns(blk) == blk # "F2"

\* Line 635 only warns on a null hash; lines 626, 655, 676 return None.
NullHashReturns(blk) == blk # "F2"

\* The options of a run: upload_to_server, overwrite_server_file and the
\* three optional features.
Profiles ==
    { [upload |-> FALSE, overwrite |-> FALSE, override |-> FALSE,
       fitsym |-> FALSE, fitart |-> FALSE],
      [upload |-> TRUE, overwrite |-> FALSE, override |-> FALSE,
       fitsym |-> FALSE, fitart |-> FALSE],
      [upload |-> TRUE, overwrite |-> TRUE, override |-> FALSE,
       fitsym |-> FALSE, fitart |-> FALSE],
      [upload |-> FALSE, overwrite |-> FALSE, override |-> TRUE,
       fitsym |-> TRUE, fitart |-> TRUE] }

\* The .cardconjurer files of n cards: every entry well-formed and the
\* m-th one (if any) with flavor text; the same with an entry that is no
\* dict appended; every entry without a data dict; the last entry alone
\* without a data dict.
Manifest(n, m, shape) ==
    LET rec(k) == [isdict |-> TRUE, key |-> k,
                   data |-> IF shape = "nodata" THEN None
                            ELSE IF shape = "partial" /\ k = n THEN None
                            ELSE IF k = m THEN FlavorPayload ELSE 1]
        good == [k \in 1..n |-> rec(k)]
    IN  IF shape = "junk"
        THEN Append(good, [isdict |-> FALSE, key |-> None, data |-> 1])
        ELSE good

Manifests ==
    {Manifest(n, m, "plain") : n \in 1..MaxCards, m \in 0..MaxCards}
      \cup {Manifest(n, 0, sh) : n \in 1..MaxCards, sh \in {"junk", "nodata"}}
      \cup {Manifest(n, 0, "partial") : n \in 2..MaxCards}

\* --------------------------------------------------------------- SpecRetry

\* Longest failed-key list drawn for the writer.
MaxFailedKeys == 2

\* Longest manifest drawn for the writer.
MaxRetryRecords == 2

RetryInit ==
    /\ DetIdle
    /\ full_card_list_from_file \in SeqsUpTo(Records, MaxRetryRecords)
    /\ failed_card_keys \in SeqsUpTo(Keys, MaxFailedKeys)
    /\ retry_file = NoFile
    /\ retry_log = "none"
    /\ retry_calls = 0
    /\ retry_io = TRUE
    /\ RunIdle

\* _write_failed_cards_file(original_filepath)
WriteFailedCardsFile ==
    /\ retry_calls = 0
    /\ \E io_ok \in BOOLEAN :
         LET r == write_failed_cards_file(full_card_list_from_file,
                                          failed_card_keys, io_ok)
         IN  /\ retry_file' = r.file
             /\ retry_log' = r.log
             /\ retry_io' = io_ok
    /\ retry_calls' = retry_calls + 1
    /\ UNCHANGED <<full_card_list_from_file, failed_card_keys, detVars, runVars>>

RetryNext == WriteFailedCardsFile

SpecRetry == RetryInit /\ [][RetryNext]_vars

\* ----------------------------------------------------------------- SpecNav

\* The inputs of a run, and what no step of a run touches.
staticVars == <<input_file, profile, file_parses, namerVars>>

\* The creator tabs the program navigates to.
Tabs == {"art", "import", "setSymbol", "bottomInfo"}

\* Number of consecutive calls of _navigate_to_creator_tab followed.
MaxNavCalls == 3

\* Any tracked view, None included, and no call made yet.
NavInit ==
    /\ DetIdle
    /\ RetryIdle
    /\ pc = "nav"
    /\ input_file = <<>>
    /\ profile = [upload |-> FALSE, overwrite |-> FALSE, override |-> FALSE,
                  fitsym |-> FALSE, fitart |-> FALSE]
    /\ cards = <<>>
    /\ parsed_card_data_map = [k \in Keys |-> None]
    /\ current_active_tab \in Tabs \cup {"none"}
    /\ canvas = None
    /\ pending = None
    /\ current_canvas_hash = None
    /\ card_i = 0
    /\ s_cards = 0
    /\ f_cards_info = <<>>
    /\ output_successful = FALSE
    /\ prime = PrimeIdle
    /\ trace = <<>>
    /\ nfaults = 0
    /\ visited = <<>>
    /\ file_parses = TRUE
    /\ NamerIdle

\* _navigate_to_creator_tab(target_tab_name)
NavigateToCreatorTab ==
    /\ pc = "nav"
    /\ Len(trace) < MaxNavCalls
    /\ \E target \in Tabs, click_ok \in BOOLEAN :
         LET nv == Navigate(current_active_tab, target, click_ok)
         IN  /\ ~nv.sw => click_ok
             /\ trace' = Append(trace, NavEv("nav", 0, current_active_tab,
                                             target, nv))
             /\ current_active_tab' = nv.tab
    /\ UNCHANGED <<detVars, retryVars, staticVars, pc, cards,
                   parsed_card_data_map, canvas, pending, current_canvas_hash,
                   card_i, s_cards, f_cards_info, output_successful, prime,
                   nfaults, visited>>

NavNext == NavigateToCreatorTab

SpecNav == NavInit /\ [][NavNext]_vars

\* --------------------------------------------------------------- SpecNamer
\* _generate_filename called repeatedly on one card of one parsed map.

MaxNameLen == 3
MaxNamerCalls == 2

Alphabet == {"a", "B", "7", " ", "-", "_", "!", "é"}

Strings == SeqsUpTo(Alphabet, MaxNameLen)

\* The card of the docstring's example (line 525).
ExampleTitle ==
    <<"I", "z", "z", "e", "t", " ", "B", "o", "i", "l", "e", "r", "w", "o",
      "r", "k", "s", "!", "!">>

ExampleData ==
    [has |-> TRUE, title |-> ExampleTitle, infoSet |-> <<"2", "X", "2">>,
     infoNumber |-> <<"4", "0", "8">>]

ExampleFilename ==
    <<"i", "z", "z", "e", "t", "-", "b", "o", "i", "l", "e", "r", "w", "o",
      "r", "k", "s", "_", "2", "x", "2", "_", "4", "0", "8", ".", "p", "n",
      "g">>

SetCodes ==
    {Absent, <<>>, set_code_default, <<"2", "X", "2">>, <<"!", "!">>}

CollectorNumbers ==
    {Absent, collector_number_default, <<"4", "0", "8">>, <<" ">>}

NamerCards ==
    [key : Strings \ {<<>>}, data : {NoCardData}]
      \cup [key : {<<"k", "1">>},
            data : [has : {TRUE}, title : Strings \cup {Absent},
                    infoSet : SetCodes, infoNumber : CollectorNumbers]]
      \cup {[key |-> <<"k", "1">>, data |-> ExampleData]}

NamerInit ==
    /\ DetIdle
    /\ RetryIdle
    /\ pc = "namer"
    /\ input_file = <<>>
    /\ profile = [upload |-> FALSE, overwrite |-> FALSE, override |-> FALSE,
                  fitsym |-> FALSE, fitart |-> FALSE]
    /\ cards = <<>>
    /\ parsed_card_data_map = [k \in Keys |-> None]
    /\ current_active_tab = "none"
    /\ canvas = None
    /\ pending = None
    /\ current_canvas_hash = None
    /\ card_i = 0
    /\ s_cards = 0
    /\ f_cards_info = <<>>
    /\ output_successful = FALSE
    /\ prime = PrimeIdle
    /\ trace = <<>>
    /\ nfaults = 0
    /\ visited = <<>>
    /\ file_parses = TRUE
    /\ \E c \in NamerCards :
         /\ namer_key = c.key
         /\ namer_data = c.data
    /\ namer_calls = <<>>

\* _generate_filename(card_name)
GenerateFilename ==
    /\ pc = "namer"
    /\ Len(namer_calls) < MaxNamerCalls
    /\ namer_calls' = Append(namer_calls,
                             generate_filename(namer_key, namer_data))
    /\ UNCHANGED <<detVars, retryVars, input_file, profile, file_parses,
                   namer_key, namer_data, pc, cards, parsed_card_data_map,
                   current_active_tab, canvas, pending, current_canvas_hash,
                   card_i, s_cards, f_cards_info, output_successful, prime,
                   trace, nfaults, visited>>

NamerNext == GenerateFilename

SpecNamer == NamerInit /\ [][NamerNext]_vars

\* -------------------------------------------------------------------- Spec

Init ==
    /\ DetIdle
    /\ RetryIdle
    /\ pc = "start"
    /\ input_file \in Manifests
    /\ profile \in Profiles
    /\ cards = <<>>
    /\ parsed_card_data_map = [k \in Keys |-> None]
    /\ current_active_tab = "none"
    /\ canvas = BlankHash
    /\ pending = BlankHash
    /\ current_canvas_hash = None
    /\ card_i = 0
    /\ s_cards = 0
    /\ f_cards_info = <<>>
    /\ output_successful = FALSE
    /\ prime = PrimeIdle
    /\ trace = <<>>
    /\ nfaults = 0
    /\ visited = <<>>
    /\ file_parses \in BOOLEAN
    /\ NamerIdle

\* run(), lines 838-866, and process_and_output_all_cards, lines 689-692:
\* open the page, parse the file, upload it, read the dropdown.  start_ok:
\* the page opened and the upload filled the dropdown.  A file that
\* _parse_cardconjurer_file_content rejects (it returns False, lines
\* 227-228 and 250-253, leaving both the map and the list empty) is still
\* uploaded: run() only warns (lines 843-845).
StartRun ==
    /\ pc = "start"
    /\ \E start_ok \in BOOLEAN :
         /\ nfaults + Cost(start_ok) <= MaxFaults
         /\ nfaults' = nfaults + Cost(start_ok)
         /\ IF start_ok /\ DropdownKeys(input_file) # <<>>
            THEN /\ cards' = DropdownKeys(input_file)
                 /\ current_active_tab' = "import"
                 /\ pc' = "prime_begin"
            ELSE /\ cards' = <<>>
                 /\ current_active_tab' = "art"
                 /\ pc' = "finally"
    /\ full_card_list_from_file' = IF file_parses THEN input_file ELSE <<>>
    /\ parsed_card_data_map' = IF file_parses THEN ParseMap(input_file)
                               ELSE [k \in Keys |-> None]
    /\ failed_card_keys' = <<>>
    /\ UNCHANGED <<detVars, staticVars, retry_file, retry_log, retry_calls,
                   retry_io, canvas, pending, current_canvas_hash, card_i,
                   s_cards, f_cards_info, output_successful, prime, trace,
                   visited>>

\* PrimeReturn with the main loop dropping the primed fingerprint.
PrimeReturnDropped(hash, tab) ==
    /\ current_canvas_hash' = None
    /\ current_active_tab' = IF hash # None THEN "art" ELSE tab
    /\ card_i' = 1
    /\ pc' = "m_load"

\* prime_rendering_quirks returns hash (None: priming failed); the main
\* loop starts (lines 694-698).
PrimeReturn(hash, tab) ==
    /\ current_canvas_hash' = hash
    /\ current_active_tab' = IF hash # None THEN "art" ELSE tab
    /\ card_i' = 1
    /\ pc' = "m_load"

\* Lines 588-620 and, with no flavor card, the choice of the first block.
\* With an empty parsed_card_data_map flavor_primer_card_name is never
\* bound and line 647 (line 663 for a single card) raises UnboundLocalError,
\* which only run() catches (line 882).
PrimeBegin ==
    /\ pc = "prime_begin"
    /\ \E nav_ok, snap_ok \in BOOLEAN :
         LET nv == Navigate(current_active_tab, "art", nav_ok)
             h0 == IF nv.tab = "art" /\ snap_ok THEN canvas ELSE None
             fidx == FlavorIndex(cards, parsed_card_data_map)
             blk == AfterBlock("begin", cards, h0, fidx)
         IN  /\ ~nv.sw => nav_ok
             /\ nv.tab # "art" => snap_ok
             /\ nfaults + Cost(nav_ok) + Cost(snap_ok) <= MaxFaults
             /\ nfaults' = nfaults + Cost(nav_ok) + Cost(snap_ok)
             /\ trace' = trace \o
                  (IF nv.sw
                   THEN <<NavEv("prime", 0, current_active_tab, "art", nv)>>
                   ELSE <<>>) \o
                  (IF nv.tab = "art"
                   THEN <<[Ev("snapshot", "prime", 0, nv.tab, snap_ok)
                             EXCEPT !.sc = "temp"]>>
                   ELSE <<>>)
             /\ IF MapEmpty(parsed_card_data_map)
                THEN /\ pc' = "finally"
                     /\ current_active_tab' = nv.tab
                     /\ prime' = [prime EXCEPT !.blk = "raised"]
                     /\ UNCHANGED <<current_canvas_hash, card_i>>
                ELSE IF blk = "finish"
                THEN /\ PrimeReturn(h0, nv.tab)
                     /\ prime' = [blk |-> blk, hash |-> h0,
                                  flavor_idx |-> fidx, ret |-> h0]
                ELSE /\ pc' = "p_load"
                     /\ current_active_tab' = nv.tab
                     /\ prime' = [blk |-> blk, hash |-> h0,
                                  flavor_idx |-> fidx, ret |-> None]
                     /\ UNCHANGED <<current_canvas_hash, card_i>>
    /\ UNCHANGED <<detVars, retryVars, staticVars, cards, parsed_card_data_map,
                   canvas, pending, s_cards, f_cards_info, output_successful,
                   visited>>

\* One block's navigate to 'import' and load_card (e.g. lines 622-623).
PrimeLoad ==
    /\ pc = "p_load"
    /\ \E nav_ok, load_ok \in BOOLEAN :
         LET key == BlockKey(prime.blk, cards, prime.flavor_idx)
             nv == Navigate(current_active_tab, "import", nav_ok)
         IN  /\ ~nv.sw => nav_ok
             /\ ~nv.ok => load_ok
             /\ nfaults + Cost(nav_ok) + Cost(load_ok) <= MaxFaults
             /\ nfaults' = nfaults + Cost(nav_ok) + Cost(load_ok)
             /\ trace' = trace \o
                  <<NavEv("prime", key, current_active_tab, "import", nv)>> \o
                  (IF nv.ok
                   THEN <<Ev("load", "prime", key, nv.tab, load_ok)>>
                   ELSE <<>>)
             /\ pending' = IF nv.ok /\ load_ok THEN Render(key, FALSE)
                           ELSE pending
             /\ IF ~nv.ok \/ (~load_ok /\ LoadFailureReturns(prime.blk))
                THEN PrimeReturn(None, nv.tab)
                ELSE /\ pc' = "p_capture"
                     /\ current_active_tab' = nv.tab
                     /\ UNCHANGED <<current_canvas_hash, card_i>>
    /\ UNCHANGED <<detVars, retryVars, staticVars, cards, parsed_card_data_map,
                   canvas, s_cards, f_cards_info, output_successful, prime,
                   visited>>

\* One block's navigate to 'art' and capture (e.g. lines 624-626), then the
\* choice of the next block or the return of final_first_card_hash.
PrimeCapture ==
    /\ pc = "p_capture"
    /\ \E nav_ok \in BOOLEAN, kind \in ScriptKinds :
         LET key == BlockKey(prime.blk, cards, prime.flavor_idx)
             nv == Navigate(current_active_tab, "art", nav_ok)
             cap == Capture(prime.hash, canvas, pending, kind, TRUE)
             blk == AfterBlock(prime.blk, cards, cap.hash, prime.flavor_idx)
         IN  /\ ~nv.sw => nav_ok
             /\ ~nv.ok => kind = "settle"
             /\ CaptureChoice(kind, TRUE, prime.hash, canvas, pending,
                              MaxFaults - nfaults - Cost(nav_ok))
             /\ nfaults' = nfaults + Cost(nav_ok) + Cost(kind = "settle")
             /\ trace' = trace \o
                  <<NavEv("prime", key, current_active_tab, "art", nv)>> \o
                  (IF nv.ok
                   THEN <<WaitEv("prime", key, nv.tab, kind, canvas, prime.hash,
                                 cap.stabilized)>> \o
                        (IF cap.snapped
                         THEN <<Ev("snapshot", "prime", key, nv.tab, TRUE)>>
                         ELSE <<>>)
                   ELSE <<>>)
             /\ IF nv.ok
                THEN /\ canvas' = CanvasAfter(kind, canvas, pending)
                     /\ pending' = IF kind = "stale" THEN pending
                                   ELSE CanvasAfter(kind, canvas, pending)
                ELSE UNCHANGED <<canvas, pending>>
             /\ IF ~nv.ok
                THEN /\ PrimeReturn(None, nv.tab)
                     /\ UNCHANGED prime
                ELSE IF cap.hash = None /\ NullHashReturns(prime.blk)
                THEN /\ PrimeReturn(None, nv.tab)
                     /\ prime' = [prime EXCEPT !.hash = cap.hash]
                ELSE IF blk = "finish"
                THEN /\ PrimeReturn(cap.hash, nv.tab)
                     /\ prime' = [prime EXCEPT !.hash = cap.hash, !.blk = blk,
                                               !.ret = cap.hash]
                ELSE /\ pc' = "p_load"
                     /\ current_active_tab' = nv.tab
                     /\ prime' = [prime EXCEPT !.hash = cap.hash, !.blk = blk]
                     /\ UNCHANGED <<current_canvas_hash, card_i>>
    /\ UNCHANGED <<detVars, retryVars, staticVars, cards, parsed_card_data_map,
                   s_cards, f_cards_info, output_successful, visited>>

\* -- the main loop, lines 698-754

\* The stage after `stage` of the card: the next enabled optional feature
\* (lines 714-716), else the capture.
StageAfter(stage) ==
    LET rank(st) == CASE st = "m_load" -> 0 [] st = "t_override" -> 1
                      [] st = "t_fitsym" -> 2 [] st = "t_fitart" -> 3
        on(st) == CASE st = "t_override" -> profile.override
                    [] st = "t_fitsym" -> profile.fitsym
                    [] st = "t_fitart" -> profile.fitart
        next == {st \in {"t_override", "t_fitsym", "t_fitart"} :
                   on(st) /\ rank(st) > rank(stage)}
    IN  IF next = {} THEN "m_capture"
        ELSE CHOOSE st \in next : \A o \in next : rank(st) <= rank(o)

\* `continue` with the loop stopped at the first failed card instead.
BreakLoop ==
    /\ card_i' = card_i
    /\ pc' = "post"

\* `continue`, or the end of the loop body: the next card, or the code
\* after the loop.
NextCard ==
    IF card_i < Len(cards)
    THEN /\ card_i' = card_i + 1
         /\ pc' = "m_load"
    ELSE /\ card_i' = card_i
         /\ pc' = "post"

\* FailCard with the failure ending the batch.
FailCardAbort(name, what) ==
    /\ f_cards_info' = Append(f_cards_info, [name |-> name, what |-> what])
    /\ failed_card_keys' = Append(failed_card_keys, name)
    /\ BreakLoop

\* f_cards_info.append(f"{name}(what)"); self.failed_card_keys.append(name);
\* continue
FailCard(name, what) ==
    /\ f_cards_info' = Append(f_cards_info, [name |-> name, what |-> what])
    /\ failed_card_keys' = Append(failed_card_keys, name)
    /\ NextCard

\* Lines 699-711: the LOAD stage of card i, skipped for a primed first card.
MainLoad ==
    /\ pc = "m_load"
    /\ visited' = Append(visited, cards[card_i])
    /\ \E nav_ok, load_ok \in BOOLEAN :
         LET name == cards[card_i]
             is_first_card_and_was_successfully_primed ==
                 card_i = 1 /\ current_canvas_hash # None
             target == IF is_first_card_and_was_successfully_primed
                       THEN "art" ELSE "import"
             nv == Navigate(current_active_tab, target, nav_ok)
             loads == nv.ok /\ ~is_first_card_and_was_successfully_primed
         IN  /\ ~nv.sw => nav_ok
             /\ ~loads => load_ok
             /\ nfaults + Cost(nav_ok) + Cost(load_ok) <= MaxFaults
             /\ nfaults' = nfaults + Cost(nav_ok) + Cost(load_ok)
             /\ trace' = trace \o
                  (IF is_first_card_and_was_successfully_primed /\ ~nv.sw
                   THEN <<>>
                   ELSE <<NavEv("main", name, current_active_tab, target,
                                nv)>>) \o
                  (IF loads
                   THEN <<Ev("load", "main", name, nv.tab, load_ok)>>
                   ELSE <<>>)
             /\ current_active_tab' = nv.tab
             /\ pending' = IF loads /\ load_ok THEN Render(name, FALSE)
                           ELSE pending
             /\ IF ~nv.ok
                THEN FailCard(name,
                              IF is_first_card_and_was_successfully_primed
                              THEN "art tab nav fail post-prime"
                              ELSE "import nav fail")
                ELSE IF ~load_ok
                THEN FailCard(name, "load fail")
                ELSE /\ pc' = StageAfter("m_load")
                     /\ UNCHANGED <<card_i, f_cards_info, failed_card_keys>>
    /\ UNCHANGED <<detVars, staticVars, full_card_list_from_file, retry_file,
                   retry_log, retry_calls, retry_io, cards,
                   parsed_card_data_map, canvas, current_canvas_hash, s_cards,
                   output_successful, prime>>

\* AfterFeature with a False result failing the card.
AfterFeatureFatal(stage, name, done) ==
    IF done
    THEN /\ pc' = StageAfter(stage)
         /\ UNCHANGED <<card_i, f_cards_info, failed_card_keys>>
    ELSE FailCard(name, "feature fail")

\* Lines 714-716: a False result of an optional feature is only logged.
AfterFeature(stage, name, done) ==
    /\ pc' = StageAfter(stage)
    /\ UNCHANGED <<card_i, f_cards_info, failed_card_keys>>

\* An optional feature of card i.  tabs: the tabs it navigates to, in order
\* (the feature returns False when the last navigation fails; a failure to
\* reach 'bottomInfo' only leaves the rarity unset, lines 420-424); act_ok:
\* its button or input was found and operated.  The caller only logs a
\* False result.
Feature(stage, op, tabs) ==
    /\ pc = stage
    /\ \E navs \in [1..Len(tabs) -> BOOLEAN], act_ok \in BOOLEAN :
         LET name == cards[card_i]
             n1 == Navigate(current_active_tab, tabs[1], navs[1])
             nl == IF Len(tabs) = 1 THEN n1
                   ELSE Navigate(n1.tab, tabs[2], navs[2])
             done == nl.ok /\ act_ok
             cost == Cost(navs[1]) + Cost(navs[Len(tabs)] \/ Len(tabs) = 1)
                       + Cost(act_ok)
         IN  /\ ~n1.sw => navs[1]
             /\ ~nl.sw => navs[Len(tabs)]
             /\ ~nl.ok => act_ok
             /\ nfaults + cost <= MaxFaults
             /\ nfaults' = nfaults + cost
             /\ trace' = trace \o
                  <<NavEv("main", name, current_active_tab, tabs[1], n1)>> \o
                  (IF Len(tabs) = 1 THEN <<>>
                   ELSE <<NavEv("main", name, n1.tab, tabs[2], nl)>>) \o
                  <<[Ev(op, "main", name, nl.tab, done)
                       EXCEPT !.sc = IF nl.ok THEN "acted" ELSE "skipped"]>>
             /\ current_active_tab' = nl.tab
             /\ pending' = IF done THEN Render(name, TRUE) ELSE pending
             /\ AfterFeature(stage, name, done)
    /\ UNCHANGED <<detVars, staticVars, full_card_list_from_file, retry_file,
                   retry_log, retry_calls, retry_io, cards,
                   parsed_card_data_map, canvas, current_canvas_hash, s_cards,
                   output_successful, prime, visited>>

\* Line 714: apply_set_symbol_override (lines 418-447).
ApplySetSymbolOverride ==
    Feature("t_override", "override", <<"bottomInfo", "setSymbol">>)

\* Line 715: apply_auto_fit_set_symbol (lines 410-416).
ApplyAutoFitSetSymbol == Feature("t_fitsym", "fitsym", <<"setSymbol">>)

\* Line 716: apply_auto_fit_art (lines 402-408).
ApplyAutoFitArt == Feature("t_fitart", "fitart", <<"art">>)

\* Lines 719-731: ensure the 'art' tab, wait for the canvas, take the final
\* data URL.
MainCapture ==
    /\ pc = "m_capture"
    /\ \E nav_ok, snap_ok \in BOOLEAN, kind \in ScriptKinds :
         LET name == cards[card_i]
             nv == Navigate(current_active_tab, "art", nav_ok)
             cap == Capture(current_canvas_hash, canvas, pending, kind,
                            snap_ok)
         IN  /\ ~nv.sw => nav_ok
             /\ ~nv.ok => (kind = "settle" /\ snap_ok)
             /\ CaptureChoice(kind, snap_ok, current_canvas_hash, canvas,
                              pending, MaxFaults - nfaults - Cost(nav_ok))
             /\ nfaults' = nfaults + Cost(nav_ok) + Cost(kind = "settle")
                             + Cost(snap_ok)
             /\ trace' = trace \o
                  (IF nv.sw
                   THEN <<NavEv("main", name, current_active_tab, "art", nv)>>
                   ELSE <<>>) \o
                  (IF nv.ok
                   THEN <<WaitEv("main", name, nv.tab, kind, canvas,
                                 current_canvas_hash, cap.stabilized)>> \o
                        (IF cap.snapped
                         THEN <<[Ev("snapshot", "main", name, nv.tab, snap_ok)
                                   EXCEPT !.r = cap.bytes]>>
                         ELSE <<>>)
                   ELSE <<>>)
             /\ current_active_tab' = nv.tab
             /\ IF nv.ok
                THEN /\ canvas' = CanvasAfter(kind, canvas, pending)
                     /\ pending' = IF kind = "stale" THEN pending
                                   ELSE CanvasAfter(kind, canvas, pending)
                     /\ current_canvas_hash' = cap.hash
                ELSE UNCHANGED <<canvas, pending, current_canvas_hash>>
             /\ IF ~nv.ok
                THEN FailCard(name, "capture tab nav fail")
                ELSE IF cap.bytes = None
                THEN FailCard(name, "capture fail")
                ELSE /\ pc' = "m_emit"
                     /\ UNCHANGED <<card_i, f_cards_info, failed_card_keys>>
    /\ UNCHANGED <<detVars, staticVars, full_card_list_from_file, retry_file,
                   retry_log, retry_calls, retry_io, cards,
                   parsed_card_data_map, s_cards, output_successful, prime,
                   visited>>

\* Lines 733-754: name the image and hand it to the sink.  exists: a file
\* of that name is already at the target (the server path, which a HEAD
\* request then finds, or the output directory); put_ok: the PUT succeeded.
MainEmit ==
    /\ pc = "m_emit"
    /\ \E exists, put_ok \in BOOLEAN :
         LET name == cards[card_i]
             checked == profile.upload /\ ~profile.overwrite
             skipped == checked /\ exists
         IN  /\ (~profile.upload \/ skipped) => put_ok
             /\ nfaults + Cost(~exists) + Cost(put_ok) <= MaxFaults
             /\ nfaults' = nfaults + Cost(~exists) + Cost(put_ok)
             /\ trace' = Append(trace, [Ev("emit", "main", name,
                                           current_active_tab,
                                           put_ok /\ ~skipped)
                                          EXCEPT !.sc =
                                            IF skipped THEN "skipped"
                                            ELSE IF exists THEN "exists"
                                            ELSE ""])
             /\ IF ~profile.upload
                THEN /\ f_cards_info' = Append(f_cards_info,
                                          [name |-> name, what |-> "artifact"])
                     /\ s_cards' = s_cards + 1
                     /\ UNCHANGED failed_card_keys
                     /\ NextCard
                ELSE IF skipped
                THEN /\ f_cards_info' = Append(f_cards_info,
                                   [name |-> name, what |-> "exists on server"])
                     /\ UNCHANGED <<s_cards, failed_card_keys>>
                     /\ NextCard
                ELSE IF put_ok
                THEN /\ s_cards' = s_cards + 1
                     /\ UNCHANGED <<f_cards_info, failed_card_keys>>
                     /\ NextCard
                ELSE /\ UNCHANGED s_cards
                     /\ FailCard(name, "upload fail")
    /\ UNCHANGED <<detVars, staticVars, full_card_list_from_file, retry_file,
                   retry_log, retry_calls, retry_io, cards,
                   parsed_card_data_map, current_active_tab, canvas, pending,
                   current_canvas_hash, output_successful, prime, visited>>

\* ReturnValue with any failed operation making the run a failure.
ReturnValueAllOrNothing(upload, s, info, zip_ok) ==
    /\ \A n \in 1..Len(info) : info[n].what = "artifact"
    /\ IF upload THEN s > 0
       ELSE info # <<>> /\ zip_ok

\* Lines 757-791: what process_and_output_all_cards returns.  info is
\* f_cards_info, s is s_cards.
ReturnValue(upload, s, info, zip_ok) ==
    IF upload THEN s > 0
    ELSE SelectSeq(info, LAMBDA c : c.what = "artifact") # <<>> /\ zip_ok

\* Lines 756-791: the code after the loop.  zip_ok: the temporary ZIP was
\* written and extracted.
PostLoop ==
    /\ pc = "post"
    /\ \E zip_ok \in BOOLEAN :
         LET successful_local_cards ==
                 SelectSeq(f_cards_info, LAMBDA c : c.what = "artifact")
             zips == ~profile.upload /\ successful_local_cards # <<>>
         IN  /\ ~zips => zip_ok
             /\ nfaults + Cost(zip_ok) <= MaxFaults
             /\ nfaults' = nfaults + Cost(zip_ok)
             /\ output_successful' =
                  ReturnValue(profile.upload, s_cards, f_cards_info, zip_ok)
             /\ trace' = IF zips
                         THEN Append(trace, Ev("zip", "post", 0,
                                               current_active_tab, zip_ok))
                         ELSE trace
    /\ pc' = "write"
    /\ UNCHANGED <<detVars, retryVars, staticVars, cards, parsed_card_data_map,
                   current_active_tab, canvas, pending, current_canvas_hash,
                   card_i, s_cards, f_cards_info, prime, visited>>

\* Lines 878-882: _write_failed_cards_file(cardconjurer_file); an exception
\* it raises is logged by run().
RunWriteFailed ==
    /\ pc = "write"
    /\ \E io_ok \in BOOLEAN :
         LET r == write_failed_cards_file(full_card_list_from_file,
                                          failed_card_keys, io_ok)
         IN  /\ ~io_ok =>
                  write_failed_cards_file(full_card_list_from_file,
                                          failed_card_keys, TRUE).file.written
             /\ nfaults + Cost(io_ok) <= MaxFaults
             /\ nfaults' = nfaults + Cost(io_ok)
             /\ retry_file' = r.file
             /\ retry_log' = r.log
             /\ retry_io' = io_ok
    /\ retry_calls' = retry_calls + 1
    /\ pc' = "finally"
    /\ UNCHANGED <<detVars, staticVars, full_card_list_from_file,
                   failed_card_keys, cards, parsed_card_data_map,
                   current_active_tab, canvas, pending, current_canvas_hash,
                   card_i, s_cards, f_cards_info, output_successful, prime,
                   trace, visited>>

\* Lines 883-888: the browser is closed; run() returns.
Finally ==
    /\ pc = "finally"
    /\ pc' = "done"
    /\ UNCHANGED <<detVars, retryVars, staticVars, cards, parsed_card_data_map,
                   current_active_tab, canvas, pending, current_canvas_hash,
                   card_i, s_cards, f_cards_info, output_successful, prime,
                   trace, nfaults, visited>>

Next ==
    \/ StartRun
    \/ PrimeBegin
    \/ PrimeLoad
    \/ PrimeCapture
    \/ MainLoad
    \/ ApplySetSymbolOverride
    \/ ApplyAutoFitSetSymbol
    \/ ApplyAutoFitArt
    \/ MainCapture
    \/ MainEmit
    \/ PostLoop
    \/ RunWriteFailed
    \/ Finally

Spec == Init /\ [][Next]_vars

\* ------------------------------------------------------------------ claims

\* C1: with baseline b, K = 3 and the samples [b,b,b,x,x,x] (x # b, no
\* erroring sample) the detector returns x on the sixth sample, the third
\* consecutive x, and has not returned on any earlier sample.
C1_ReturnsOnThirdX ==
    \A b \in Hashes : \A x \in Hashes \ {b} :
      \A n \in 0..6 :
        (det_initial = b /\ samples = SubSeq(<<b, b, b, x, x, x>>, 1, n))
          => /\ det.done <=> n = 6
             /\ det.done => det.result = x

\* C2: with a non-null baseline the detector never returns the baseline:
\* while the stable run has reached K on the baseline it keeps polling.
C2_NeverReturnsBaseline ==
    det_initial # None =>
      /\ ~(det.done /\ det.result = det_initial)
      /\ (det.stable_count >= stability_checks_needed
            /\ det.current_hash = det_initial) => det.result = None

\* C2 witness: the run escaped the baseline and then held K samples on it;
\* the call is still polling.
C2_Witness ==
    /\ det_initial # None
    /\ det.changed_from_initial
    /\ det.stable_count >= stability_checks_needed
    /\ det.current_hash = det_initial
    /\ ~det.done
    /\ polls < MaxPolls

\* The records of M whose key is among the failed keys, in M's order.
RecordsToRetry(M, F) ==
    SelectSeq(M, LAMBDA c : c.isdict /\ c.key # None /\ c.key \in Range(F))

\* C7: for a non-empty failed-key list the writer writes exactly the records
\* of the manifest whose key failed, unchanged and in order, and no other
\* record; for an empty list it writes nothing.
C7_WritesExactlyFailedRecords ==
    (retry_calls > 0 /\ retry_io) =>
      IF failed_card_keys = <<>>
      THEN retry_file = NoFile
      ELSE retry_file.objects =
             RecordsToRetry(full_card_list_from_file, failed_card_keys)

\* The failed keys that match no record of the manifest.
UnmatchedKeys(M, F) ==
    {k \in Range(F) : \A i \in 1..Len(M) : ~(M[i].isdict /\ M[i].key = k)}

\* C9: whenever some failed key matches no record of the manifest the writer
\* logs the no-match warning, also when other failed keys do match.  Stated
\* for manifests the writer reads to the end (non-empty, every entry a dict).
C9_WarnsOnEveryUnmatchedKey ==
    (retry_calls > 0
       /\ full_card_list_from_file # <<>>
       /\ \A i \in 1..Len(full_card_list_from_file) :
             full_card_list_from_file[i].isdict
       /\ UnmatchedKeys(full_card_list_from_file, failed_card_keys) # {})
      => retry_log = "warning: no key matched"

\* -- claims about run()

\* The failure entries of f_cards_info (the strings; the dicts are the
\* captured images of a local run).
FailureEntries == SelectSeq(f_cards_info, LAMBDA c : c.what # "artifact")

\* The positions of the trace where op was issued for key with result ok.
Events(op, key, ok) ==
    {n \in 1..Len(trace) :
       trace[n].op = op /\ trace[n].key = key /\ trace[n].ok = ok}

\* The external actions that did not succeed.
FailedEvents == {n \in 1..Len(trace) : ~trace[n].ok}

\* Card `key` went through load, convergence, snapshot and emit.
CarriedThrough(key) ==
    \E l \in Events("load", key, TRUE) : \E w \in Events("wait", key, TRUE) :
      \E sn \in Events("snapshot", key, TRUE) :
        \E e \in Events("emit", key, TRUE) :
          /\ trace[l].ph = "main" /\ trace[w].ph = "main"
          /\ trace[sn].ph = "main"
          /\ l < w /\ w < sn /\ sn < e

\* In a finished run over three cards the only deviations were failed loads
\* of card B (key 2), one of them in the main loop.
C3_Case ==
    /\ pc = "done"
    /\ cards = <<1, 2, 3>>
    /\ FailedEvents = Events("load", 2, FALSE)
    /\ \E n \in Events("load", 2, FALSE) : trace[n].ph = "main"
    /\ nfaults = Cardinality(FailedEvents)

\* C3: manifest [A,B,C], B's load fails, everything else succeeds: success
\* count 2, exactly one failure entry, B with the load stage, B the only
\* failed key, and C carried through load, convergence, snapshot and emit.
C3_LoadFailureIsolated ==
    C3_Case =>
      /\ s_cards = 2
      /\ FailureEntries = <<[name |-> 2, what |-> "load fail"]>>
      /\ failed_card_keys = <<2>>
      /\ CarriedThrough(3)

\* C3 witness: such a run has ended with two successes.
C3_Witness == C3_Case /\ s_cards = 2 /\ visited = <<1, 2, 3>>

\* The optional features the run has enabled.
EnabledFeatures ==
    {f \in {"override", "fitsym", "fitart"} :
       \/ f = "override" /\ profile.override
       \/ f = "fitsym" /\ profile.fitsym
       \/ f = "fitart" /\ profile.fitart}

\* In a finished run over three cards the only deviations were optional
\* features of card B (key 2) returning False, no navigation failing.
C4_Case ==
    /\ pc = "done"
    /\ cards = <<1, 2, 3>>
    /\ FailedEvents # {}
    /\ \A n \in FailedEvents :
         trace[n].op \in {"override", "fitsym", "fitart"} /\ trace[n].key = 2
    /\ nfaults = Cardinality(FailedEvents)
    /\ retry_io

\* C4: manifest [A,B,C], only a transform of B fails: success count 3, B in
\* no failure entry and not a failed key, and every enabled transform was
\* still attempted for B.
C4_TransformFailureNotFatal ==
    C4_Case =>
      /\ s_cards = 3
      /\ \A n \in 1..Len(FailureEntries) : FailureEntries[n].name # 2
      /\ 2 \notin Range(failed_card_keys)
      /\ \A f \in EnabledFeatures :
           Events(f, 2, TRUE) \cup Events(f, 2, FALSE) # {}

\* C4 witness: B's first feature failed, the later ones ran, three successes.
C4_Witness ==
    /\ C4_Case
    /\ Events("override", 2, FALSE) # {}
    /\ Events("fitsym", 2, TRUE) # {}
    /\ Events("fitart", 2, TRUE) # {}
    /\ s_cards = 3

\* C5: the main loop visits every card exactly once, in order, and the run
\* ends only after the last one, whatever fails.
C5_VisitsEveryCardOnce ==
    /\ Len(visited) <= Len(cards)
    /\ visited = SubSeq(cards, 1, Len(visited))
    /\ (pc = "done" /\ cards # <<>>) => visited = cards

\* In a finished run over the well-formed manifest [A,B] every load of A
\* (key 1) failed, one of them in the main loop, and nothing else deviated.
C6_Case ==
    /\ pc = "done"
    /\ cards = <<1, 2>>
    /\ Len(input_file) = 2
    /\ FailedEvents = Events("load", 1, FALSE)
    /\ Events("load", 1, TRUE) = {}
    /\ \E n \in Events("load", 1, FALSE) : trace[n].ph = "main"
    /\ nfaults = Cardinality(FailedEvents)

\* C6: end to end, manifest [A,B], A's loads fail, B succeeds: success count
\* 1, failures naming exactly A, retry manifest = [A's original record].
C6_EndToEndRetry ==
    C6_Case =>
      /\ s_cards = 1
      /\ Len(FailureEntries) = 1 /\ FailureEntries[1].name = 1
      /\ failed_card_keys = <<1>>
      /\ retry_file = [written |-> TRUE, objects |-> <<input_file[1]>>]

\* C6 witness: such a run has ended and wrote a failed-cards file.
C6_Witness == C6_Case /\ retry_file.written /\ CarriedThrough(2)

\* C8: the retry manifest is written at most once, only after the main loop
\* has gone over all cards, and only if a failed key was recorded; a run
\* without failed keys writes none.
C8_RetryWrittenOnceAtEnd ==
    /\ retry_calls <= 1
    /\ retry_calls = 0 => retry_file = NoFile
    /\ retry_calls > 0 => (pc \in {"finally", "done"} /\ visited = cards)
    /\ retry_file.written => failed_card_keys # <<>>

\* C8 witness: a finished run with a failed key has written the file.
C8_Witness ==
    /\ pc = "done"
    /\ retry_file.written
    /\ failed_card_keys # <<>>
    /\ s_cards > 0

\* The waits of the main loop in which the canvas, showing the non-null
\* baseline, left it for a frame and stabilised on it again, or showed it
\* throughout.
SameHashWaits ==
    {n \in 1..Len(trace) :
       /\ trace[n].op = "wait" /\ trace[n].ph = "main"
       /\ trace[n].h # None /\ trace[n].cv = trace[n].h
       /\ trace[n].sc \in {"back", "stale"}}

\* C10: a canvas that stabilises back on the non-null baseline is a soft
\* failure, not a timeout: the snapshot is taken and the card is counted as
\* captured, not recorded as failed.
C10_SameHashStillCaptured ==
    \A n \in SameHashWaits :
      /\ trace[n].ok
      /\ \E m \in Events("snapshot", trace[n].key, TRUE) : m > n
      /\ trace[n].key \notin Range(failed_card_keys)

\* -- claims about _navigate_to_creator_tab

\* The calls of _navigate_to_creator_tab in the trace.
NavCalls == {n \in 1..Len(trace) : trace[n].op = "nav"}

\* C16: _navigate_to_creator_tab(target) called while the tracked view is
\* target returns True without looking for the tab button and leaves the
\* tracked view as it is.
C16_NavigateNoOp ==
    \A n \in NavCalls :
      trace[n].from = trace[n].tab =>
        /\ trace[n].ok
        /\ ~trace[n].sw
        /\ trace[n].to = trace[n].from
        /\ (n = Len(trace) => current_active_tab = trace[n].from)

\* C16 witness: the last call asked for the view already tracked.
C16_Witness ==
    /\ trace # <<>>
    /\ trace[Len(trace)].op = "nav"
    /\ trace[Len(trace)].from = trace[Len(trace)].tab
    /\ current_active_tab = trace[Len(trace)].tab

\* C17: a failed _navigate_to_creator_tab leaves the tracked view None; the
\* next call, whatever its target, the view tracked before the failure
\* included, clicks the tab button again; a call that succeeds leaves the
\* tracked view equal to its target.
C17_FailureForgetsView ==
    \A n \in NavCalls :
      /\ ~trace[n].ok =>
           /\ trace[n].to = "none"
           /\ (n = Len(trace) => current_active_tab = "none")
           /\ (n < Len(trace) /\ trace[n + 1].op = "nav") =>
                /\ trace[n + 1].from = "none"
                /\ trace[n + 1].sw
      /\ trace[n].ok =>
           /\ trace[n].to = trace[n].tab
           /\ (n = Len(trace) => current_active_tab = trace[n].tab)

\* C17 witness: a call failed and the next one, to the view tracked before
\* the failure, clicked the button and succeeded.
C17_Witness ==
    \E n \in NavCalls :
      /\ ~trace[n].ok
      /\ trace[n].from # "none"
      /\ n + 1 = Len(trace)
      /\ trace[n + 1].tab = trace[n].from
      /\ trace[n + 1].sw /\ trace[n + 1].ok
      /\ current_active_tab = trace[n].from

\* -- claims about the baseline of the main loop

\* The convergence waits of the main loop.
MainWaits ==
    {n \in 1..Len(trace) : trace[n].op = "wait" /\ trace[n].ph = "main"}

\* The fingerprint the last convergence wait of the main loop before
\* position n returned; what priming returned when there is none.
LastReturned(n) ==
    LET E == {m \in MainWaits : m < n /\ trace[m].r # None}
    IN  IF E = {} THEN prime.ret
        ELSE trace[CHOOSE m \in E : \A o \in E : o <= m].r

\* The main loop is at, or past, some card.
InMainLoop ==
    pc \in {"m_load", "t_override", "t_fitsym", "t_fitart", "m_capture",
            "m_emit", "post", "write"}

\* C11: a card failing at LOAD, at the navigation to the capture view or by
\* a convergence timeout leaves the held baseline alone: every convergence
\* wait of the main loop is given the last fingerprint a wait returned.
C11_BaselineSurvivesFailure ==
    /\ \A n \in MainWaits : trace[n].h = LastReturned(n)
    /\ InMainLoop => current_canvas_hash = LastReturned(Len(trace) + 1)

\* C11 witness: card 1 converged, card 2 failed at LOAD or by a timeout, and
\* card 3's wait was given card 1's fingerprint.
C11_Witness ==
    /\ cards = <<1, 2, 3>>
    /\ \E m, n \in MainWaits :
         /\ trace[m].key = 1 /\ trace[m].r # None
         /\ trace[n].key = 3 /\ trace[n].h = trace[m].r
    /\ \E j \in 1..Len(FailureEntries) :
         /\ FailureEntries[j].name = 2
         /\ FailureEntries[j].what \in {"load fail", "capture fail"}

\* The events of the main loop for card `key`.
MainEvents(key) ==
    {n \in 1..Len(trace) : trace[n].ph = "main" /\ trace[n].key = key}

\* C12: when priming returned a fingerprint p, the main loop neither
\* navigates to 'import' nor loads card 0 and gives p to card 0's
\* convergence wait; when priming returned None, card 0 starts with the
\* navigation to 'import', is loaded if that succeeds, and its wait is given
\* None.
C12_PrimedFirstCard ==
    (InMainLoop /\ visited # <<>>) =>
      LET E == MainEvents(cards[1])
          first == CHOOSE n \in E : \A o \in E : n <= o
      IN  IF prime.ret # None
          THEN \A n \in E :
                 /\ trace[n].op # "load"
                 /\ ~(trace[n].op = "nav" /\ trace[n].tab = "import")
                 /\ trace[n].op = "wait" => trace[n].h = prime.ret
          ELSE /\ E # {}
               /\ trace[first].op = "nav" /\ trace[first].tab = "import"
               /\ trace[first].ok =>
                    (first + 1 \in E /\ trace[first + 1].op = "load")
               /\ \A n \in E : trace[n].op = "wait" => trace[n].h = None

\* C12 witness: priming returned a fingerprint and card 0's wait got it.
C12_Witness ==
    /\ prime.ret # None
    /\ \E n \in MainEvents(cards[1]) :
         trace[n].op = "wait" /\ trace[n].h = prime.ret

\* Priming returned None and card 0 was loaded and waited for with no
\* baseline.
C12_UnprimedReached ==
    /\ InMainLoop /\ prime.ret = None
    /\ \E n \in MainEvents(cards[1]) :
         trace[n].op = "wait" /\ trace[n].h = None

\* -- further claims about the detector

\* The samples that yielded a hash.
ValidSamples == SelectSeq(samples, LAMBDA x : x # Err)

\* seq has k consecutive equal entries.
HasRun(seq, k) ==
    \E n \in 1..(Len(seq) - k + 1) :
      \A j \in n..(n + k - 1) : seq[j] = seq[n]

\* C13: when no K consecutive valid samples are identical the detector
\* does not return a fingerprint: it ends at the timeout with None, for a
\* null and for a non-null baseline.
C13_RestlessCanvasTimesOut ==
    ~HasRun(ValidSamples, stability_checks_needed) =>
      (det.done => (det.result = None /\ polls >= MaxPolls))

\* The same for a canvas on which no two consecutive valid samples agree.
C13_StrictlyRestless ==
    ~HasRun(ValidSamples, 2) =>
      (det.done => (det.result = None /\ polls >= MaxPolls))
\* C14: with a non-null baseline b, while every valid sample is b the
\* stable-run counter stays 0, the detector does not leave the escape phase,
\* and it ends only at the timeout, with None.
C14_NoEscapeTimesOut ==
    (det_initial # None
       /\ \A n \in 1..Len(ValidSamples) : ValidSamples[n] = det_initial) =>
      /\ det.stable_count = 0
      /\ ~det.changed_from_initial
      /\ det.done => (det.result = None /\ polls >= MaxPolls)

\* C14 witness: the call timed out after K or more samples, all b.
C14_Witness ==
    /\ det_initial # None
    /\ Len(ValidSamples) >= stability_checks_needed
    /\ \A n \in 1..Len(ValidSamples) : ValidSamples[n] = det_initial
    /\ det.done /\ det.result = None

\* The valid samples that count for stability: all of them for a null
\* baseline, those from the first one that differs from the baseline on
\* otherwise.
CountedSamples ==
    LET V == ValidSamples
        E == {n \in 1..Len(V) : V[n] # det_initial}
    IN  IF det_initial = None THEN V
        ELSE IF E = {} THEN <<>>
        ELSE SubSeq(V, CHOOSE n \in E : \A o \in E : n <= o, Len(V))

\* The length of the run of equal entries that ends seq.
TrailingRun(seq) ==
    IF seq = <<>> THEN 0
    ELSE LET S == {k \in 1..Len(seq) :
                     \A j \in (Len(seq) - k + 1)..Len(seq) :
                       seq[j] = seq[Len(seq)]}
         IN  CHOOSE k \in S : \A o \in S : o <= k

\* C15: the stable-run counter equals the number of most recent consecutive
\* counted samples that share the current fingerprint (1 for the first
\* counted sample, 1 again after a change), and a fingerprint is returned
\* only when K such samples have been taken.
C15_CounterIsRunLength ==
    /\ det.stable_count = TrailingRun(CountedSamples)
    /\ (det.done /\ det.result # None) =>
         TrailingRun(CountedSamples) >= stability_checks_needed
\* -- claims about the view-gated actions

\* The load_card calls in the trace.
Loads == {n \in 1..Len(trace) : trace[n].op = "load"}

\* C18: in priming and in the main loop load_card is called only while the
\* tracked view is 'import', right after a successful navigation to it for
\* that card; after a failed navigation to 'import' for a card no load of
\* that card follows in that phase.
C18_LoadOnlyOnImport ==
    /\ \A n \in Loads :
         /\ trace[n].tab = "import"
         /\ n > 1
         /\ trace[n - 1].op = "nav" /\ trace[n - 1].tab = "import"
         /\ trace[n - 1].ok /\ trace[n - 1].to = "import"
         /\ trace[n - 1].key = trace[n].key /\ trace[n - 1].ph = trace[n].ph
    /\ \A n \in NavCalls :
         (trace[n].tab = "import" /\ ~trace[n].ok) =>
           /\ \A m \in Loads :
                m > n => ~(trace[m].key = trace[n].key
                           /\ trace[m].ph = trace[n].ph)
           /\ trace[n].ph = "prime" =>
                \A m \in Loads : m > n => trace[m].ph # "prime"

\* C18 witness: a navigation to 'import' failed for card 2 in the main loop
\* and the loop went on to load card 3.
C18_Witness ==
    /\ \E n \in NavCalls :
         /\ trace[n].tab = "import" /\ ~trace[n].ok
         /\ trace[n].ph = "main" /\ trace[n].key = 2
    /\ \E m \in Loads : trace[m].ph = "main" /\ trace[m].key = 3
    /\ \E m \in Loads : trace[m].ph = "prime"

\* The view an action is gated on; "" for one that is not gated.
ViewOf(e) ==
    CASE e.op \in {"wait", "snapshot"} -> "art"
      [] e.op = "load" -> "import"
      [] e.op \in {"override", "fitsym"} /\ e.sc = "acted" -> "setSymbol"
      [] e.op = "fitart" /\ e.sc = "acted" -> "art"
      [] OTHER -> ""

\* The view-gated actions in the trace.
Gated == {n \in 1..Len(trace) : ViewOf(trace[n]) # ""}

Emitted == {n \in 1..Len(trace) : trace[n].op = "emit"}

Artifacts ==
    IF profile.upload THEN {n \in Emitted : trace[n].ok}
    ELSE IF \E n \in 1..Len(trace) : trace[n].op = "zip" /\ trace[n].ok
    THEN Emitted
    ELSE {}

\* process_and_output_all_cards has returned.
ProcessReturned ==
    /\ pc \in {"write", "finally", "done"}
    /\ cards # <<>>
    /\ visited = cards

\* The cards recorded as failed in f_cards_info.
FailedNames ==
    {FailureEntries[n].name :
       n \in {j \in 1..Len(FailureEntries) :
                FailureEntries[j].what # "exists on server"}}

\* C20: process_and_output_all_cards returns True exactly when at least one
\* artifact was produced; failed cards do not make it False, and their keys
\* are in failed_card_keys.
C20_SuccessIffArtifact ==
    ProcessReturned =>
      /\ output_successful <=> Artifacts # {}
      /\ Range(failed_card_keys) = FailedNames

\* C20 witness: a run with a failed card and an artifact returned True.
C20_Witness ==
    /\ ProcessReturned
    /\ failed_card_keys # <<>>
    /\ Artifacts # {}
    /\ output_successful

\* A run in which every card failed returned False.
C20_AllFailedReached ==
    /\ ProcessReturned
    /\ Len(failed_card_keys) = Len(cards)
    /\ ~output_successful
\* -- claims about the sink

\* The emits whose target was already there.
TargetExisted == {n \in Emitted : trace[n].sc \in {"exists", "skipped"}}

\* The image of emit n reached its target: the PUT succeeded, or the ZIP
\* that holds it was extracted into the output directory.
Written(n) ==
    IF profile.upload THEN trace[n].ok
    ELSE \E m \in 1..Len(trace) : trace[m].op = "zip" /\ trace[m].ok

\* C21: in local and in upload mode, without the overwrite flag an artifact
\* whose target exists is never written over it; with the flag the artifact
\* is written whether or not the target exists.
C21_NoOverwriteWithoutForce ==
    \A n \in Emitted :
      /\ (~profile.overwrite /\ n \in TargetExisted) => ~Written(n)
      /\ profile.overwrite => trace[n].sc # "skipped"

\* The same for the upload sink alone.
C21_UploadOnly ==
    profile.upload => C21_NoOverwriteWithoutForce
\* The image of emit n did not reach its target: the PUT failed, or the
\* ZIP could not be written or extracted.
WriteFailed(n) ==
    IF profile.upload THEN ~trace[n].ok /\ trace[n].sc # "skipped"
    ELSE \E m \in 1..Len(trace) : trace[m].op = "zip" /\ ~trace[m].ok

\* C22: in upload and in local mode every card whose write or upload failed
\* has its key in failed_card_keys at the end and is not counted in s_cards.
C22_SinkFailureIsItemFailure ==
    ProcessReturned =>
      /\ \A n \in Emitted :
           WriteFailed(n) => trace[n].key \in Range(failed_card_keys)
      /\ s_cards = Cardinality({n \in Emitted : Written(n)})

\* The same for the upload sink alone.
C22_UploadOnly ==
    profile.upload => C22_SinkFailureIsItemFailure
\* -- claims about the manifest

\* The entries _parse_cardconjurer_file_content maps, and those it skips
\* with a warning.
WellFormed(c) == c.isdict /\ c.key # None /\ c.data # None

Malformed(list) == {n \in 1..Len(list) : ~WellFormed(list[n])}

\* Loads, waits, snapshots and emits of cards.
ItemEvents ==
    {n \in 1..Len(trace) :
       /\ trace[n].op \in {"load", "wait", "snapshot", "emit"}
       /\ trace[n].key # 0}

C23_PartialReached ==
    /\ file_parses
    /\ Malformed(input_file) # {}
    /\ pc = "done"
    /\ \E n \in ItemEvents : trace[n].op = "emit" /\ trace[n].ok

\* -- claims about the filename

C24_DataUnchanged ==
    [][namer_key' = namer_key /\ namer_data' = namer_data]_vars

\* The filename without its extension.
Base(name) == SubSeq(name, 1, Len(name) - 4)

Png == <<".", "p", "n", "g">>

\* No segment between '_' delimiters is empty.
NoEmptySegment(b) ==
    /\ b # <<>>
    /\ b[1] # "_"
    /\ b[Len(b)] # "_"
    /\ \A i \in 1..(Len(b) - 1) : ~(b[i] = "_" /\ b[i + 1] = "_")

\* The set code and the collector number as the filename sees them.
SetCodeClean == CleanField(namer_data, namer_data.infoSet, set_code_default)

CollectorNumberClean ==
    CleanField(namer_data, namer_data.infoNumber, collector_number_default)

\* The sanitized key: its leading segment, cleaned like a title.
SanitizedKey == FinalFilter(CleanName(SplitFirst(namer_key)))

\* C25: a key with no parsed metadata is named by its sanitized key only, and
\* no name has an empty segment: the base is non-empty, neither starts nor
\* ends with '_' and has no doubled '_'.
C25_NoEmptySegment ==
    \A n \in 1..Len(namer_calls) :
      /\ ~namer_data.has => namer_calls[n] = SanitizedKey \o Png
      /\ NoEmptySegment(Base(namer_calls[n]))

\* What holds of C25: the key alone names a card without metadata, and the
\* name has no empty segment when the key's leading segment keeps a character.
C25_KeyOnly ==
    \A n \in 1..Len(namer_calls) :
      ~namer_data.has =>
        /\ namer_calls[n] = SanitizedKey \o Png
        /\ SanitizedKey # <<>> => NoEmptySegment(Base(namer_calls[n]))

C25_EmptyBaseReached ==
    /\ ~namer_data.has
    /\ namer_calls # <<>>
    /\ namer_calls[1] = Png

\* FilenameParts with the set code and the collector number appended only
\* together.
FilenamePartsBoth(clean_name, set_code_clean, collector_number_clean) ==
    IF /\ set_code_clean # <<>> /\ set_code_clean # set_code_default
       /\ collector_number_clean # <<>>
       /\ collector_number_clean # collector_number_default
    THEN <<clean_name, set_code_clean, collector_number_clean>>
    ELSE <<clean_name>>

\* C26: the set-code and collector-number segments are appended only when
\* both are present and neither is its sentinel default; when only one is
\* present neither is appended.
C26_SetAndNumberTogether ==
    \A n \in 1..Len(namer_calls) :
      namer_calls[n] =
        FinalFilter(Join(FilenamePartsBoth(
            CleanName(ActualCardName(namer_key, namer_data)),
            SetCodeClean, CollectorNumberClean))) \o Png

C26_OneAloneReached ==
    /\ namer_calls # <<>>
    /\ SetCodeClean = <<"2", "x", "2">>
    /\ CollectorNumberClean = collector_number_default
    /\ namer_data.title = <<"a">>
    /\ namer_calls[1] = <<"a", "_", "2", "x", "2">> \o Png

\* The title the name is made from: the metadata title, else the key's
\* leading segment.
TitleOrKey ==
    IF namer_data.has /\ namer_data.title # Absent THEN namer_data.title
    ELSE SplitFirst(namer_key)

\* C27: the title is the metadata title when present and otherwise the item
\* key, also when the key has metadata without a title; a key containing '_'
\* contributes only its leading segment.
C27_TitleOrKey ==
    \A n \in 1..Len(namer_calls) :
      namer_calls[n] =
        FinalFilter(Join(FilenameParts(CleanName(TitleOrKey), SetCodeClean,
                                       CollectorNumberClean))) \o Png

\* What holds of C27: when the title is present, or the key has no metadata.
C27_TitledOrBare ==
    (namer_data.has => namer_data.title # Absent) => C27_TitleOrKey

C27_UnknownReached ==
    /\ namer_calls # <<>>
    /\ namer_data.has
    /\ namer_data.title = Absent
    /\ SetCodeClean = set_code_default
    /\ CollectorNumberClean = collector_number_default
    /\ namer_calls[1] = actual_card_name_default \o Png

\* The name segment of the filename.
NameSegment == FinalFilter(CleanName(ActualCardName(namer_key, namer_data)))

\* [a-z0-9-]
NameChars == Range(LowerCase) \cup Digits \cup {"-"}

\* C28: the name segment contains only characters of [a-z0-9-]: '_' and
\* non-ASCII letters are stripped, whitespace runs become one hyphen and
\* repeated hyphens are collapsed.
C28_NameSegmentAlphabet ==
    namer_calls # <<>> =>
      /\ \A i \in 1..Len(NameSegment) : NameSegment[i] \in NameChars
      /\ \A i \in 1..(Len(NameSegment) - 1) :
           ~(NameSegment[i] = "-" /\ NameSegment[i + 1] = "-")

\* What holds of C28: no whitespace, no doubled hyphen, no character other
\* than an alphanumeric of any script, '-' and '_'.
C28_NameSegmentWordChars ==
    namer_calls # <<>> =>
      /\ \A i \in 1..Len(NameSegment) :
           IsWord(NameSegment[i]) \/ NameSegment[i] = "-"
      /\ \A i \in 1..Len(NameSegment) :
           NameSegment[i] = Lower(NameSegment[i])
      /\ \A i \in 1..(Len(NameSegment) - 1) :
           ~(NameSegment[i] = "-" /\ NameSegment[i + 1] = "-")

C28_UnderscoreKeptReached ==
    /\ namer_calls # <<>>
    /\ namer_data.has
    /\ namer_data.title = <<"a", "_", "é">>
    /\ NameSegment = <<"a", "_", "é">>

\* -- claims about the order of the stages

\* The stage an event of the main loop belongs to: LOAD 1, TRANSFORM 2,
\* AWAIT_CONVERGENCE 4, SNAPSHOT 5, EMIT 6; 0 for a navigation.
StageRank(e) ==
    CASE e.op = "load" -> 1
      [] e.op \in {"override", "fitsym", "fitart"} -> 2
      [] e.op = "wait" -> 4
      [] e.op = "snapshot" -> 5
      [] e.op = "emit" -> 6
      [] OTHER -> 0

\* The position in the trace at which the artifact of emit event n is
\* persisted: the upload itself, or the extraction of the ZIP after the loop
\* (beyond the trace while it has not happened).
Persisted(n) ==
    IF profile.upload THEN n
    ELSE LET Z == {m \in 1..Len(trace) : trace[m].op = "zip"}
         IN  IF Z = {} THEN Len(trace) + 1 ELSE CHOOSE m \in Z : TRUE

\* The stages of the card of emit event n happened in order: loaded (the last
\* load before n is its own and succeeded), transformed, awaited on the
\* capture view, snapshot, emitted.
StagesInOrder(n) ==
    LET E == MainEvents(trace[n].key)
        L == {l \in Loads : l < n}
    IN  /\ \A a, b \in E :
             (a < b /\ StageRank(trace[a]) > 0 /\ StageRank(trace[b]) > 0)
               => StageRank(trace[a]) <= StageRank(trace[b])
        /\ L # {}
        /\ LET l == CHOOSE m \in L : \A o \in L : o <= m
           IN  trace[l].key = trace[n].key /\ trace[l].ok
        /\ \E w, c \in E :
             /\ w < c /\ c < n
             /\ trace[w].op = "wait" /\ trace[w].ok /\ trace[w].tab = "art"
             /\ trace[c].op = "snapshot" /\ trace[c].ok

\* No stage of another card lies between the first stage of the card of emit
\* event n and the point its artifact is persisted.
StagesBeforeNext(n) ==
    LET E == MainEvents(trace[n].key)
    IN  \A m \in 1..Len(trace) :
          (trace[m].ph = "main" /\ trace[m].key # trace[n].key)
            => \/ \A a \in E : m < a
               \/ m > Persisted(n)

\* C29: the stages of every emitted card occur in the order LOAD, TRANSFORM*,
\* ENSURE_CAPTURE_VIEW, AWAIT_CONVERGENCE, SNAPSHOT, EMIT, and all of them,
\* the EMIT that persists the artifact included, complete before any stage
\* of the next card begins.
C29_StagesCompleteBeforeNext ==
    \A n \in Emitted : StagesInOrder(n) /\ StagesBeforeNext(n)

\* What holds of C29: the order of the stages in both modes, and the
\* completion before the next card when the sink is the upload.
C29_OrderAndUpload ==
    \A n \in Emitted :
      /\ StagesInOrder(n)
      /\ profile.upload => StagesBeforeNext(n)

C29_DeferredReached ==
    /\ ~profile.upload
    /\ \E n \in Emitted : \E m \in 1..Len(trace) :
         /\ m > n
         /\ trace[m].op = "load" /\ trace[m].ph = "main"
         /\ trace[m].key # trace[n].key
         /\ m < Persisted(n)

\* -- claims about priming

\* The loads and the convergence waits of the priming pre-phase.
PrimeLoads ==
    {n \in 1..Len(trace) : trace[n].op = "load" /\ trace[n].ph = "prime"}

PrimeWaits ==
    {n \in 1..Len(trace) : trace[n].op = "wait" /\ trace[n].ph = "prime"}

\* The n-th load of priming, from 1.
PrimeLoadAt(n) ==
    CHOOSE l \in PrimeLoads : Cardinality({m \in PrimeLoads : m <= l}) = n

\* Card `key` is loaded at l and then captured before any other load.
LoadedAndCaptured(l, key) ==
    /\ trace[l].key = key
    /\ trace[l].ok
    /\ \E w \in PrimeWaits :
         /\ w > l
         /\ trace[w].key = key
         /\ trace[w].r # None
         /\ \A m \in PrimeLoads : m <= l \/ m > w

\* Priming returned a fingerprint.
PrimeReturnedHash == prime.blk = "finish" /\ prime.ret # None

\* The marker card and the card after it are loaded and captured first.
MarkerFirst ==
    LET fidx == prime.flavor_idx
    IN  fidx # 0 =>
          /\ PrimeLoads # {}
          /\ LoadedAndCaptured(PrimeLoadAt(1), cards[fidx])
          /\ fidx + 1 <= Len(cards) =>
               /\ Cardinality(PrimeLoads) >= 2
               /\ LoadedAndCaptured(PrimeLoadAt(2), cards[fidx + 1])

\* Card 0 is the last card loaded, and a capture of it after that load
\* returned the fingerprint priming returns.
FirstCardLast ==
    /\ PrimeLoads # {}
    /\ LET l == PrimeLoadAt(Cardinality(PrimeLoads))
       IN  /\ trace[l].key = cards[1]
           /\ trace[l].ok
           /\ \E w \in PrimeWaits :
                w > l /\ trace[w].key = cards[1] /\ trace[w].r = prime.ret

\* C30: priming loads and captures the first marker card, then the card
\* after it, and finally (re)loads and captures card 0; when it returns a
\* fingerprint, card 0 is the last card loaded and the fingerprint comes from
\* card 0's capture.
C30_PrimingEndsOnFirstCard ==
    PrimeReturnedHash => MarkerFirst /\ FirstCardLast

\* What holds of C30: the same when every load and every convergence wait of
\* priming succeeded.
C30_WhenEveryWaitConverges ==
    (/\ PrimeReturnedHash
     /\ \A n \in PrimeLoads \cup PrimeWaits : trace[n].ok)
      => MarkerFirst /\ FirstCardLast

C30_StaleReturnReached ==
    /\ PrimeReturnedHash
    /\ PrimeLoads # {}
    /\ trace[PrimeLoadAt(Cardinality(PrimeLoads))].key = cards[1]
    /\ \E w \in PrimeWaits :
         /\ w > PrimeLoadAt(Cardinality(PrimeLoads))
         /\ trace[w].r = None
    /\ \A w \in PrimeWaits : trace[w].r # prime.ret

C30_MarkerPrimedReached ==
    /\ PrimeReturnedHash
    /\ prime.flavor_idx = 2
    /\ Len(cards) = 3
    /\ MarkerFirst /\ FirstCardLast
    /\ Cardinality(PrimeLoads) = 4

\* -- claims about erroring samples and convergence

\* The locals of the detector after the samples seq[n..], none of them
\* erroring, taken from locals d.
RECURSIVE DetReplay(_, _, _, _)
DetReplay(d, initial_data_url_hash, seq, n) ==
    IF d.done \/ n > Len(seq) THEN d
    ELSE DetReplay(DetStep(d, initial_data_url_hash, seq[n]),
                   initial_data_url_hash, seq, n + 1)

\* C31: an erroring sample leaves the stable-run counter, the held
\* fingerprint and the escaped flag unchanged: the detector stands where it
\* would stand had it been given the valid samples alone, so a run of
\* identical valid samples interrupted by erroring ones counts as consecutive.
C31_ErrorSampleSkipped ==
    LET d == DetReplay(DetInit(det_initial), det_initial, ValidSamples, 1)
    IN  /\ det.stable_count = d.stable_count
        /\ det.last_hash = d.last_hash
        /\ det.current_hash = d.current_hash
        /\ det.changed_from_initial = d.changed_from_initial
        /\ det.result = d.result

\* C31 witness: a fingerprint returned on a run that an erroring sample
\* interrupted.
C31_Witness ==
    /\ Len(samples) >= 3
    /\ samples[Len(samples) - 1] = Err
    /\ samples[Len(samples)] # Err
    /\ samples[Len(samples) - 2] = samples[Len(samples)]
    /\ det.done
    /\ det.result = samples[Len(samples)]

\* seq ends with k entries equal to f.
EndsWithRun(seq, f, k) ==
    /\ Len(seq) >= k
    /\ \A j \in (Len(seq) - k + 1)..Len(seq) : seq[j] = f

\* C32: once the surface has yielded K consecutive valid samples with one
\* fingerprint f that is not the baseline (any f for a null baseline), before
\* the timeout, the detector has returned f, not the timeout's None.
C32_StableRunReturns ==
    \A f \in Hashes :
      (f # det_initial /\ EndsWithRun(ValidSamples, f, stability_checks_needed)
         /\ samples[Len(samples)] = f)
        => det.done /\ det.result = f

\* C32 witness: K samples f after a sample of another fingerprint, the run
\* interrupted by an erroring sample, and f returned.
C32_Witness ==
    /\ det_initial # None
    /\ Len(ValidSamples) > stability_checks_needed
    /\ Len(samples) > Len(ValidSamples)
    /\ \E f \in Hashes \ {det_initial} :
         /\ EndsWithRun(ValidSamples, f, stability_checks_needed)
         /\ ValidSamples[Len(ValidSamples) - stability_checks_needed] # f
         /\ det.done /\ det.result = f

\* C33: the detector issues no navigate, load or transform action and leaves
\* the tracked view, the success count, the failed keys and the stored
\* manifest as they are, whatever it returns.
C33_DetectorIsReadOnly ==
    [][UNCHANGED <<trace, current_active_tab, s_cards, failed_card_keys,
                   full_card_list_from_file, parsed_card_data_map>>]_vars

\* C33 witness: a call that has polled and returned a fingerprint.
C33_Witness ==
    /\ det.done
    /\ det.result # None
    /\ polls >= stability_checks_needed
    /\ trace = <<>>
    /\ current_active_tab = "none"

C33_TimeoutReached ==
    /\ det.done
    /\ det.result = None
    /\ polls = MaxPolls
    /\ trace = <<>>

\* -- claims about the primed first card

\* The convergence waits of the main loop for the first card that are given
\* the primed fingerprint on a canvas showing it, the render being complete
\* (old frame, then the render) and no transform enabled.
PrimedStableWaits ==
    {w \in MainWaits :
       /\ PrimeReturnedHash
       /\ EnabledFeatures = {}
       /\ trace[w].key = cards[1]
       /\ trace[w].h = prime.ret
       /\ trace[w].cv = prime.ret
       /\ trace[w].sc = "settle"}

\* C34: a first card that priming left on the surface with the primed
\* fingerprint converges, is snapshotted and is counted; a run without any
\* fault over a single card counts one success.
C34_PrimedFirstCardSucceeds ==
    /\ \A w \in PrimedStableWaits :
         /\ trace[w].ok
         /\ \E c \in MainEvents(cards[1]) :
              c > w /\ trace[c].op = "snapshot" /\ trace[c].ok
    /\ (/\ ProcessReturned /\ Len(cards) = 1 /\ PrimeReturnedHash
        /\ EnabledFeatures = {} /\ nfaults = 0)
         => s_cards = 1

\* The fault-free run over one card ends without a success.
C34_SingleCardFailsReached ==
    /\ ProcessReturned
    /\ Len(cards) = 1
    /\ PrimeReturnedHash
    /\ EnabledFeatures = {}
    /\ nfaults = 0
    /\ s_cards = 0
    /\ failed_card_keys = cards

\* With a transform that changes the render the primed first card converges.
C34_TransformedFirstCardReached ==
    /\ PrimeReturnedHash
    /\ EnabledFeatures # {}
    /\ \E w \in MainWaits :
         /\ trace[w].key = cards[1]
         /\ trace[w].h = prime.ret
         /\ trace[w].ok

\* The last convergence wait of priming.
LastPrimeWait == CHOOSE w \in PrimeWaits : \A o \in PrimeWaits : o <= w

\* C35: priming returns a fingerprint only if its final convergence wait,
\* the one for card 0, returned that fingerprint; after a wait of priming
\* that timed out no fingerprint obtained before it is handed to the main
\* loop.
C35_PrimedBaselineIsFresh ==
    PrimeReturnedHash =>
      /\ PrimeWaits # {}
      /\ trace[LastPrimeWait].key = cards[1]
      /\ trace[LastPrimeWait].r = prime.ret
      /\ \A w \in PrimeWaits : trace[w].r = None =>
           \E o \in PrimeWaits : o > w /\ trace[o].r = prime.ret

\* What holds of C35: the same when no wait of priming timed out.
C35_WhenNoWaitTimesOut ==
    (PrimeReturnedHash /\ \A w \in PrimeWaits : trace[w].r # None)
      => C35_PrimedBaselineIsFresh

\* The main loop was handed the fingerprint a timed-out final wait was given.
C35_StaleBaselineReached ==
    /\ PrimeReturnedHash
    /\ PrimeWaits # {}
    /\ trace[LastPrimeWait].r = None
    /\ trace[LastPrimeWait].h = prime.ret
    /\ \E w \in MainWaits : trace[w].h = prime.ret

\* -- claims about the outcome of every card

\* Card k was counted as a success: lines 748 and 754.
Counted(k) == \E n \in Emitted : trace[n].key = k /\ trace[n].ok

\* The main loop has gone through every card.
LoopFinished == ProcessReturned /\ cards # <<>> /\ visited = cards

\* C36: when the main loop has ended every card is either counted as a
\* success or among the failed keys, never both and never neither, in local
\* and in upload mode.
C36_SuccessOrFailed ==
    LoopFinished =>
      /\ \A n \in 1..Len(cards) :
           Counted(cards[n]) <=> cards[n] \notin Range(failed_card_keys)
      /\ s_cards = Cardinality({n \in 1..Len(cards) : Counted(cards[n])})

\* What holds of C36: the same unless the upload of a card was skipped
\* because its file exists on the server.
C36_UnlessSkipped ==
    (\A n \in Emitted : trace[n].sc # "skipped") => C36_SuccessOrFailed

\* A card whose file exists on the server is neither counted nor failed.
C36_NeitherReached ==
    /\ LoopFinished
    /\ \E n \in Emitted :
         /\ trace[n].sc = "skipped"
         /\ ~Counted(trace[n].key)
         /\ trace[n].key \notin Range(failed_card_keys)

\* -- claims about the asynchronous render

\* The digests of the finished render of card k.
RendersOf(k) == {Render(k, FALSE), Render(k, TRUE)}

\* The snapshots of the main loop that yielded an image.
MainSnapshots ==
    {n \in 1..Len(trace) :
       trace[n].op = "snapshot" /\ trace[n].ph = "main" /\ trace[n].ok}

\* C37: every convergence the detector declares for a card in the main loop
\* is on that card's render, and the image snapshotted for it shows that
\* render, never content the surface displayed before the card's load took
\* effect; also for a null and for a stale baseline.
C37_ConvergesOnOwnRender ==
    /\ \A w \in MainWaits :
         trace[w].ok => trace[w].r \in RendersOf(trace[w].key)
    /\ \A c \in MainSnapshots : trace[c].r \in RendersOf(trace[c].key)

\* What holds of C37: the same for a wait whose baseline is what the canvas
\* shows when the wait begins.
C37_WithFreshBaseline ==
    \A w \in MainWaits :
      (trace[w].ok /\ trace[w].h = trace[w].cv)
        => trace[w].r \in RendersOf(trace[w].key)

\* With a null baseline the detector converged on the frame shown before the
\* card's render, and that frame was emitted for the card.
C37_OldFrameEmittedReached ==
    \E w \in MainWaits : \E n \in Emitted :
      /\ w < n
      /\ trace[n].key = trace[w].key
      /\ trace[w].h = None
      /\ trace[w].r = trace[w].cv
      /\ trace[w].r \notin RendersOf(trace[w].key)
      /\ trace[n - 1].op = "snapshot"
      /\ trace[n - 1].r = trace[w].cv

\* The same with a stale baseline: the previous card's wait timed out.
C37_StaleBaselineReached ==
    \E w \in MainWaits :
      /\ trace[w].h # None
      /\ trace[w].h # trace[w].cv
      /\ trace[w].r = trace[w].cv
      /\ trace[w].r \notin RendersOf(trace[w].key)

\* C38: for every card captured in the main loop the fingerprint of the
\* snapshotted bytes is the fingerprint the convergence wait returned, which
\* is also the baseline given to the next wait, even if the surface changes
\* between the last stable sample and the snapshot.
C38_SnapshotMatchesWait ==
    \A c \in MainSnapshots :
      /\ trace[c - 1].op = "wait"
      /\ trace[c].r = trace[c - 1].r
      /\ \A w \in MainWaits :
           (w > c /\ \A o \in MainWaits : ~(c < o /\ o < w))
             => trace[w].h = trace[c - 1].r

\* What holds of C38: the next wait is given the fingerprint the wait
\* returned, and the snapshot has it when the render was visible from the
\* second sample on.
C38_BaselineIsWaitResult ==
    \A c \in MainSnapshots :
      /\ trace[c - 1].op = "wait"
      /\ trace[c - 1].sc = "settle" => trace[c].r = trace[c - 1].r
      /\ \A w \in MainWaits :
           (w > c /\ \A o \in MainWaits : ~(c < o /\ o < w))
             => trace[w].h = trace[c - 1].r

\* An emitted image whose fingerprint is not the one the wait returned.
C38_MismatchReached ==
    \E n \in Emitted :
      /\ trace[n - 1].op = "snapshot"
      /\ trace[n - 2].op = "wait"
      /\ trace[n - 2].r # None
      /\ trace[n - 1].r # trace[n - 2].r

\* -- claims about a malformed record in the manifest

\* The manifest of the run holds an entry that is no object next to
\* well-formed ones, and a well-formed card has failed.
MalformedNextToFailed ==
    /\ file_parses
    /\ \E n \in 1..Len(input_file) : ~input_file[n].isdict
    /\ \E n \in 1..Len(input_file) :
         /\ WellFormed(input_file[n])
         /\ input_file[n].key \in Range(failed_card_keys)

\* C39: with an entry that is no object next to well-formed records, a run
\* in which a well-formed card fails writes a retry manifest holding that
\* card's original record; the malformed entry makes neither the parsing
\* nor the retry writer fail.
C39_MalformedRecordTolerated ==
    (MalformedNextToFailed /\ pc = "done" /\ retry_calls > 0 /\ retry_io) =>
      /\ parsed_card_data_map = ParseMap(SelectSeq(input_file, WellFormed))
      /\ retry_file # NoFile
      /\ retry_file.objects = RecordsToRetry(input_file, failed_card_keys)

\* What holds of C39: the parsing skips the malformed entry and the run goes
\* on to process the well-formed cards.
C39_ParsingTolerates ==
    (MalformedNextToFailed /\ pc = "done" /\ retry_calls > 0) =>
      /\ parsed_card_data_map = ParseMap(SelectSeq(input_file, WellFormed))
      /\ visited = cards

\* The retry writer raised on the malformed entry and left no file.
C39_WriterRaisedReached ==
    /\ MalformedNextToFailed
    /\ pc = "done"
    /\ retry_calls > 0
    /\ retry_file = NoFile
    /\ retry_log = "exception: AttributeError"

\* -- claims about distinct filenames

\* The other cards a run can hold next to the card named: any other key,
\* without metadata or with metadata equal to this card's.
OtherCards ==
    [key : (Strings \ {<<>>, namer_key}), data : {NoCardData, namer_data}]

\* C40: within one run two cards with distinct keys never get the same
\* filename, so that no artifact of the run overwrites another.
C40_DistinctKeysDistinctNames ==
    \A n \in 1..Len(namer_calls) : \A c \in OtherCards :
      generate_filename(c.key, c.data) # namer_calls[n]

\* Two keys that differ only in a stripped character get one filename.
C40_CollisionReached ==
    /\ namer_key = <<"a">>
    /\ ~namer_data.has
    /\ namer_calls # <<>>
    /\ namer_calls[1] = generate_filename(<<"a", "!">>, NoCardData)
    /\ namer_calls[1] = generate_filename(<<"a", "_", "B">>, NoCardData)
    /\ namer_calls[1] = generate_filename(<<"A">>, NoCardData)

====
